---- MODULE Spec2Model ----
(***************************************************************************)
(* awspub: content-addressed upload of a disk image to S3, import into an  *)
(* EBS snapshot, cross-region copy and AMI registration.                   *)
(*                                                                         *)
(* The provider (S3 / EC2) is the shared state.  Every run of the program  *)
(* is a process p that walks through the API calls of the code one call    *)
(* per step; a run can be interrupted between any two calls (Crash).       *)
(***************************************************************************)
EXTENDS Integers, Sequences, FiniteSets, TLC

\* ------------------------------------------------------------------ bounds
\* runs a process may start in one behaviour
MaxRuns == 3
\* longest source file, in bytes
MaxFileLen == 3
\* highest part number a foreign (pre-existing) multipart upload may hold
MaxStoredPart == 2
\* runs the two overlapping processes may start, taken together
MaxConcRuns == 3
\* runs of Image.create on an account that already holds resources
MaxAccountRuns == 1
\* attempts a waiter makes before it gives up: scaled from MaxAttempts 90, 60 and 90 of
\* snapshot.py:156, 165, 239 and from botocore's budget for the image waiters
MaxAttempts == 2

\* stands for s3.MULTIPART_CHUNK_SIZE (8 MiB) at the scale of MaxFileLen
MULTIPART_CHUNK_SIZE == 2

Procs == {1, 2}
Bytes == {0, 1}
None == "None"

\* ---------------------------------------------------------------- hashing
\* hashlib.sha256(x).digest() of a byte string: injective on the modelled inputs,
\* never x itself
Sha256(x) == <<"sha256", "bytes", x>>
\* hashlib.sha256(s.encode("utf-8")).digest() of a text: a text is a sequence of tokens
Sha256Text(s) == <<"sha256", "text", s>>
\* base64.b64encode(d).decode("ascii")
B64(d) == <<"b64", d>>
\* the inverse the provider applies to a stored ChecksumSHA256
UnB64(s) == s[2]
\* .hexdigest(): one token of a text
HexDigest(x) == <<"hex", Sha256(x)>>
HexDigestText(s) == <<"hex", Sha256Text(s)>>
\* a literal piece of text as a token
Lit(str) == <<"lit", str>>

\* ------------------------------------------------------------------- files
\* per length one file whose chunks all differ and one whose equal-sized chunks coincide
Files == {[i \in 1..n |-> i * k] : n \in 1..MaxFileLen, k \in Bytes}

Min(a, b) == IF a < b THEN a ELSE b

\* iter(lambda: f.read(MULTIPART_CHUNK_SIZE), b""): the chunks of a file
NumChunks(f) == (Len(f) + MULTIPART_CHUNK_SIZE - 1) \div MULTIPART_CHUNK_SIZE

Chunk(f, n) ==
    SubSeq(f, (n - 1) * MULTIPART_CHUNK_SIZE + 1, Min(n * MULTIPART_CHUNK_SIZE, Len(f)))

\* variant of _multipart_sha256sum whose count is the number of bytes read
multipart_sha256sum_counting_bytes(f) ==
    [digest |-> B64(Sha256([i \in 1..NumChunks(f) |-> Sha256(Chunk(f, i))])),
     count  |-> Len(f)]

\* S3._multipart_sha256sum: b64(sha256(concat(sha256(chunk_i)))) + "-" + count
multipart_sha256sum(f) ==
    [digest |-> B64(Sha256([i \in 1..NumChunks(f) |-> Sha256(Chunk(f, i))])),
     count  |-> NumChunks(f)]

\* sha256_part of s3.py:201
sha256_part(chunk) == B64(Sha256(chunk))

\* Context.source_sha256: the object key
source_sha256(f) == HexDigest(f)

\* Context.tags: the common resource tag set, key -> value
ctx_tags(f) ==
    [filename |-> "file.vmdk", architecture |-> "x86_64", sha256 |-> source_sha256(f)]

NoTags == [k \in {} |-> None]

\* create_tags: the given tags replace those of the same key
WithTags(old, new) == new @@ old

\* ---------------------------------------------------------------- provider
\* what S3 stores for a part: the checksum it computed over the body, and an ETag
StoredPart(body) == [ETag |-> <<"etag", body>>, ChecksumSHA256 |-> B64(Sha256(body))]

\* a body that is no chunk of any modelled file
ForeignBody == <<-1>>
ForeignKey == HexDigest(ForeignBody)

\* the checksum S3 computes for a multipart object from the parts it is completed with
CompositeChecksum(partsSeq) ==
    [digest |-> B64(Sha256([i \in 1..Len(partsSeq) |-> UnB64(partsSeq[i].ChecksumSHA256)])),
     count  |-> Len(partsSeq)]

VARIABLES
    file,          \* the source file (conf source.path), unchanged over a behaviour
    bucketExists,  \* whether conf s3.bucket_name is among the account's buckets
    object,        \* the object at key source_sha256, or NoObject
    uploads,       \* in-progress multipart uploads of the bucket, in listing order
    nextUploadId,  \* fresh UploadId
    pc,            \* per process: the call it is about to issue
    op,            \* per process: the entry point of its current run
    err,           \* per process: the exception that ended its last run
    runs,          \* per process: runs started
    s3loc,         \* per process: locals of S3.upload_file / _upload_file_multipart
    issued,        \* per process: provider calls issued in the current run, by API
    hist,          \* history over all runs: upload_part calls per part number, uploads created
    conf,          \* the image's configuration (conf["images"][image_name])
    tasks,         \* import snapshot tasks of the bucket region; ImportTaskId = index
    snaps,         \* per region the snapshots; SnapshotId = index
    imgs,          \* per region the images; ImageId = index
    loc,           \* per process: locals of Snapshot.create / Snapshot.copy / Image.create
    ret,           \* per process: what its run returned
    last           \* per process: how its previous run ended, what it returned, and how
                   \* many of its earlier runs returned

s3vars == <<file, bucketExists, object, uploads, nextUploadId>>
ec2vars == <<tasks, snaps, imgs>>
vars == <<file, bucketExists, object, uploads, nextUploadId, pc, op, err, runs, s3loc,
          issued, hist, conf, tasks, snaps, imgs, loc, ret, last>>

\* the provider calls that change provider state, and the waiters
Apis == {"create_multipart_upload", "upload_part", "complete_multipart_upload",
         "put_object_tagging", "import_snapshot", "create_tags_snapshot",
         "copy_snapshot", "register_image", "create_tags_image", "wait",
         "modify_image_attribute", "modify_snapshot_attribute", "deregister_image"}

NoCalls == [a \in Apis |-> 0]

EmptyParts == <<>>

\* no object at the key
NoObject == [absent |-> TRUE]

S3LocInit ==
    [s3_sha256sum |-> [digest |-> None, count |-> 0], upload_id |-> 0, parts_available |-> EmptyParts,
     parts |-> EmptyParts, part_number |-> 0, sent |-> {}, head |-> None]

NoMap == [r \in {} |-> 0]

\* import_snapshot_task_id, snapshot_id: Snapshot.create; source_snapshot_id: Snapshot._copy;
\* snapshot_ids: Snapshot.copy; images, image_id (resp["ImageId"]): Image.create;
\* i: the position of the running loop in its region list
LocInit ==
    [import_snapshot_task_id |-> 0, snapshot_id |-> 0, source_snapshot_id |-> 0,
     snapshot_ids |-> NoMap, images |-> NoMap, image_id |-> 0, i |-> 0, attempts |-> 0,
     problems |-> NoMap]

\* what a run returns: api.create the image id per region, Snapshot.create a snapshot id
NoRet == [images |-> NoMap, snapshot_id |-> 0, problems |-> NoMap]

\* ---------------------------------------------------------- control helpers
Goto(p, label) == pc' = [pc EXCEPT ![p] = label]

Issue(p, api) == issued' = [issued EXCEPT ![p][api] = @ + 1]

\* an exception leaves the run: nothing of the call stack survives
Raise(p, e) ==
    /\ pc' = [pc EXCEPT ![p] = "failed"]
    /\ err' = [err EXCEPT ![p] = e]
    /\ s3loc' = [s3loc EXCEPT ![p] = S3LocInit]
    /\ loc' = [loc EXCEPT ![p] = LocInit]

Running(p) == pc[p] \notin {"idle", "done", "failed"}

\* a waiter that starts over when its budget is spent
WaiterRetry_unbounded(p) ==
    /\ loc' = [loc EXCEPT ![p].attempts = (@ + 1) % MaxAttempts]
    /\ UNCHANGED <<pc, err, s3loc, issued>>

\* botocore waiter: an attempt that did not see the awaited state was the last one of
\* the budget (WaiterError), or is followed by another attempt
WaiterRetry(p) ==
    IF loc[p].attempts + 1 >= MaxAttempts
      THEN /\ Raise(p, "WaiterError")
           /\ Issue(p, "wait")
      ELSE /\ loc' = [loc EXCEPT ![p].attempts = @ + 1]
           /\ UNCHANGED <<pc, err, s3loc, issued>>

\* ---------------------------------------------------------------- S3 (s3.py)
\* variant of the listing that takes the uploads of every key
MatchingUploads_any_key == uploads

\* upload["UploadId"] for upload in resp["Uploads"] if upload["Key"] == source_sha256
MatchingUploads == SelectSeq(uploads, LAMBDA u : u.Key = source_sha256(file))

UploadWithId(id) == CHOOSE u \in {uploads[i] : i \in DOMAIN uploads} : u.UploadId = id

UploadExists(id) == \E i \in DOMAIN uploads : uploads[i].UploadId = id

\* variant of part_reusable that reuses any stored part, whatever its checksum
part_reusable_any_stored(parts_available, part_number, sha) ==
    part_number \in DOMAIN parts_available

\* s3.py:203-204: the stored part is reused when present with the chunk's checksum
part_reusable(parts_available, part_number, sha) ==
    /\ part_number \in DOMAIN parts_available
    /\ parts_available[part_number].ChecksumSHA256 = sha

\* variant of the return of upload_file into create that goes on with Snapshot.copy
S3_return_to_copy(p) ==
    /\ pc' = [pc EXCEPT ![p] = IF op[p] = "upload_file" THEN "done" ELSE "Snapshot_copy"]
    /\ s3loc' = [s3loc EXCEPT ![p] = S3LocInit]
    /\ loc' = [loc EXCEPT ![p].i = 1]

\* upload_file returned: back in the caller
S3_return(p) ==
    /\ pc' = [pc EXCEPT ![p] = IF op[p] = "upload_file" THEN "done" ELSE "Snapshot_create"]
    /\ s3loc' = [s3loc EXCEPT ![p] = S3LocInit]
    /\ loc' = loc

\* s3.py:34-41: the first read of S3.bucket_region
S3_bucket_region(p) ==
    /\ pc[p] = "bucket_region"
    /\ IF ~bucketExists
         THEN Raise(p, "BucketDoesNotExistException")
         ELSE /\ Goto(p, "done")
              /\ UNCHANGED <<err, s3loc, loc>>
    /\ UNCHANGED <<s3vars, op, runs, issued, hist, conf, ec2vars, ret, last>>

\* variant of upload_file that does not look for the bucket
S3_upload_file_unchecked(p) ==
    /\ pc[p] = "upload_file"
    /\ pc' = [pc EXCEPT ![p] = "head_object"]
    /\ s3loc' = [s3loc EXCEPT ![p].s3_sha256sum = multipart_sha256sum(file)]
    /\ UNCHANGED <<err, loc>>
    /\ UNCHANGED <<s3vars, op, runs, issued, hist, conf, ec2vars, ret, last>>

\* s3.py:96-100: _bucket_exists (list_buckets), then the local multipart checksum
S3_upload_file(p) ==
    /\ pc[p] = "upload_file"
    /\ IF ~bucketExists
         THEN /\ Raise(p, "BucketDoesNotExistException")
         ELSE /\ pc' = [pc EXCEPT ![p] = "head_object"]
              /\ s3loc' = [s3loc EXCEPT ![p].s3_sha256sum = multipart_sha256sum(file)]
              /\ UNCHANGED <<err, loc>>
    /\ UNCHANGED <<s3vars, op, runs, issued, hist, conf, ec2vars, ret, last>>

\* what head_object can answer: the object's head, the exception for a missing key
\* ("404"), or any other client / transport error ("error"); s3.py:120 catches the
\* exceptions all alike
HeadOutcomes == IF object = NoObject THEN {"404", "error"} ELSE {"head", "error"}

\* s3.py:102-124
S3_head_object(p) ==
    /\ pc[p] = "head_object"
    /\ \E outcome \in HeadOutcomes :
         IF outcome = "head" /\ object.ChecksumSHA256 = s3loc[p].s3_sha256sum
           THEN S3_return(p)
           ELSE /\ pc' = [pc EXCEPT ![p] = "get_multipart_upload_id"]
                /\ s3loc' = [s3loc EXCEPT ![p].head = outcome]
                /\ loc' = loc
    /\ UNCHANGED <<s3vars, op, err, runs, issued, hist, conf, ec2vars, ret, last>>

\* s3.py:126-169, then list_parts of s3.py:183-192
S3_get_multipart_upload_id(p) ==
    /\ pc[p] = "get_multipart_upload_id"
    /\ IF Len(MatchingUploads) >= 1
         THEN /\ s3loc' = [s3loc EXCEPT ![p].upload_id = MatchingUploads[1].UploadId]
              /\ UNCHANGED <<uploads, nextUploadId, issued, hist>>
         ELSE /\ uploads' = Append(uploads, [UploadId |-> nextUploadId,
                                             Key |-> source_sha256(file),
                                             Parts |-> EmptyParts])
              /\ nextUploadId' = nextUploadId + 1
              /\ s3loc' = [s3loc EXCEPT ![p].upload_id = nextUploadId]
              /\ Issue(p, "create_multipart_upload")
              /\ hist' = [hist EXCEPT !.created = @ + 1]
    /\ Goto(p, "list_parts")
    /\ UNCHANGED <<file, bucketExists, object, op, err, runs, conf, ec2vars, loc, ret, last>>

\* s3.py:183-196
S3_list_parts(p) ==
    /\ pc[p] = "list_parts"
    /\ IF ~UploadExists(s3loc[p].upload_id)
         THEN /\ Raise(p, "ClientError")
         ELSE /\ s3loc' = [s3loc EXCEPT ![p].parts_available = UploadWithId(s3loc[p].upload_id).Parts,
                                        ![p].parts = EmptyParts,
                                        ![p].part_number = 1]
              /\ pc' = [pc EXCEPT ![p] = IF NumChunks(file) = 0 THEN "complete_multipart_upload"
                                                                  ELSE "upload_part"]
              /\ UNCHANGED <<err, loc>>
    /\ UNCHANGED <<s3vars, op, runs, issued, hist, conf, ec2vars, ret, last>>

\* one iteration of the loop of s3.py:199-237
S3_upload_part(p) ==
    /\ pc[p] = "upload_part"
    /\ LET l == s3loc[p]
           n == l.part_number
           chunk == Chunk(file, n)
           sha == sha256_part(chunk)
           after == IF n + 1 > NumChunks(file) THEN "complete_multipart_upload" ELSE "upload_part"
       IN IF part_reusable(l.parts_available, n, sha)
            THEN /\ s3loc' = [s3loc EXCEPT
                        ![p].parts = (n :> [PartNumber |-> n,
                                            ETag |-> l.parts_available[n].ETag,
                                            ChecksumSHA256 |-> l.parts_available[n].ChecksumSHA256]) @@ @,
                        ![p].part_number = n + 1]
                 /\ Goto(p, after)
                 /\ UNCHANGED <<uploads, issued, hist, err, loc>>
            ELSE IF ~UploadExists(l.upload_id)
            THEN /\ Raise(p, "ClientError")
                 /\ UNCHANGED <<uploads, issued, hist>>
            ELSE /\ uploads' = [i \in DOMAIN uploads |->
                        IF uploads[i].UploadId = l.upload_id
                          THEN [uploads[i] EXCEPT !.Parts = (n :> StoredPart(chunk)) @@ @]
                          ELSE uploads[i]]
                 /\ s3loc' = [s3loc EXCEPT
                        ![p].parts = (n :> [PartNumber |-> n,
                                            ETag |-> StoredPart(chunk).ETag,
                                            ChecksumSHA256 |-> sha]) @@ @,
                        ![p].part_number = n + 1,
                        ![p].sent = @ \cup {n}]
                 /\ Issue(p, "upload_part")
                 /\ hist' = [hist EXCEPT !.uploaded = (n :> (IF n \in DOMAIN @ THEN @[n] ELSE 0) + 1) @@ @]
                 /\ Goto(p, after)
                 /\ UNCHANGED <<err, loc>>
    /\ UNCHANGED <<file, bucketExists, object, nextUploadId, op, runs, conf, ec2vars, ret, last>>

\* [value for key, value in parts.items()]: the parts in the order they were inserted
PartsList(parts) == [i \in 1..Cardinality(DOMAIN parts) |-> parts[i]]

\* S3's side of complete_multipart_upload: every named part must be stored under the
\* given ETag, and the given ChecksumSHA256 must be the composite of the stored parts
CompleteAccepted(upload, partsList, checksum) ==
    /\ \A i \in DOMAIN partsList :
         /\ partsList[i].PartNumber \in DOMAIN upload.Parts
         /\ upload.Parts[partsList[i].PartNumber].ETag = partsList[i].ETag
    /\ CompositeChecksum([i \in DOMAIN partsList |-> upload.Parts[partsList[i].PartNumber]]) = checksum

\* s3.py:243-249
S3_complete_multipart_upload(p) ==
    /\ pc[p] = "complete_multipart_upload"
    /\ LET l == s3loc[p]
           partsList == PartsList(l.parts)
       IN IF UploadExists(l.upload_id)
             /\ CompleteAccepted(UploadWithId(l.upload_id), partsList, l.s3_sha256sum)
            THEN /\ object' = [ChecksumSHA256 |-> l.s3_sha256sum, TagSet |-> NoTags]
                 /\ uploads' = SelectSeq(uploads, LAMBDA u : u.UploadId # l.upload_id)
                 /\ Issue(p, "complete_multipart_upload")
                 /\ Goto(p, "put_object_tagging")
                 /\ UNCHANGED <<s3loc, err, loc>>
            ELSE /\ Raise(p, "ClientError")
                 /\ UNCHANGED <<object, uploads, issued>>
    /\ UNCHANGED <<file, bucketExists, nextUploadId, op, runs, hist, conf, ec2vars, ret, last>>

\* s3.py:256-262
S3_put_object_tagging(p) ==
    /\ pc[p] = "put_object_tagging"
    /\ IF object = NoObject
         THEN /\ Raise(p, "ClientError")
              /\ UNCHANGED <<object, issued>>
         ELSE /\ object' = [object EXCEPT !.TagSet = ctx_tags(file)]
              /\ Issue(p, "put_object_tagging")
              /\ S3_return(p)
              /\ err' = err
    /\ UNCHANGED <<file, bucketExists, uploads, nextUploadId, op, runs, hist, conf, ec2vars, ret, last>>

\* ------------------------------------------------------- configuration
\* describe_regions: the regions of the active partition, in the order listed
Regions == {"r1", "r2"}
image_regions_all == <<"r1", "r2">>
\* S3.bucket_region: the home region
bucket_region == "r1"
\* boto3.client("ec2").meta.partition: the partition of the account the run works
\* in, kept with the configuration since it is as fixed over a behaviour
partition_current == conf.partition

image_name == conf.name

DefaultConf ==
    [name |-> "img", regions |-> <<"r1", "r2">>, separate_snapshot |-> FALSE,
     billing_products |-> [given |-> FALSE, codes |-> <<>>],
     share |-> <<>>, tags |-> NoTags, partition |-> "aws", temporary |-> FALSE,
     public |-> FALSE, boot_mode |-> "uefi", root_device_volume_type |-> "gp3",
     root_device_volume_size |-> 8, tpm_support |-> None, imds_support |-> None,
     sns |-> <<>>]

\* image.py:452-488: the attributes register_image gives the image; TpmSupport,
\* ImdsSupport and BillingProducts are passed when configured only
RegisteredAttributes(c) ==
    [RootDeviceType |-> "ebs", BootMode |-> c.boot_mode,
     VolumeType |-> c.root_device_volume_type, VolumeSize |-> c.root_device_volume_size,
     TpmSupport |-> c.tpm_support, ImdsSupport |-> c.imds_support,
     BillingProducts |-> IF c.billing_products.given THEN c.billing_products.codes ELSE <<>>]

\* variant of image_regions that takes the configured list as it is
image_regions_unfiltered(c) == IF c.regions # <<>> THEN c.regions ELSE image_regions_all

\* image.py:120-146: the configured regions the partition knows, or all of them.
\* list(set & set) holds each region once; the order Python gives the list is not
\* fixed by the code, the order of the provider's listing stands for it
image_regions(c) ==
    IF c.regions # <<>>
      THEN SelectSeq(image_regions_all, LAMBDA r : \E i \in DOMAIN c.regions : c.regions[i] = r)
      ELSE image_regions_all

\* variant of snapshot_name that appends the billing hashes before the image-name hash
snapshot_name_billing_first(f, c) ==
    LET s0 == <<source_sha256(f)>>
        bps == IF c.billing_products.given THEN c.billing_products.codes ELSE <<>>
        s1 == s0 \o [i \in DOMAIN bps |-> HexDigestText(<<Lit(bps[i])>>)]
        s2 == IF c.separate_snapshot THEN s1 \o <<HexDigestText(<<Lit(c.name)>>)>> ELSE s1
    IN IF s2 = <<source_sha256(f)>> THEN source_sha256(f) ELSE HexDigestText(s2)

\* variant of snapshot_name that leaves the image name out
snapshot_name_without_image_name(f, c) ==
    LET s0 == <<source_sha256(f)>>
        bps == IF c.billing_products.given THEN c.billing_products.codes ELSE <<>>
        s2 == s0 \o [i \in DOMAIN bps |-> HexDigestText(<<Lit(bps[i])>>)]
    IN IF s2 = <<source_sha256(f)>> THEN source_sha256(f) ELSE HexDigestText(s2)

\* image.py:83-118
snapshot_name(f, c) ==
    LET s0 == <<source_sha256(f)>>
        s1 == IF c.separate_snapshot THEN s0 \o <<HexDigestText(<<Lit(c.name)>>)>> ELSE s0
        bps == IF c.billing_products.given THEN c.billing_products.codes ELSE <<>>
        s2 == s1 \o [i \in DOMAIN bps |-> HexDigestText(<<Lit(bps[i])>>)]
    IN IF s2 = <<source_sha256(f)>> THEN source_sha256(f) ELSE HexDigestText(s2)

\* image.py:148-161: common tags, overridden by the image's own
Image_tags(f, c) == c.tags @@ ctx_tags(f)

\* snapshot.py:123-124 and 206-207: the common tags plus Name
snapshot_tags(f, c) == [Name |-> snapshot_name(f, c)] @@ ctx_tags(f)

\* common.py:10-31; a share entry is the sequence of its colon-separated fields
split_partition(val) ==
    IF val[1] = "arn"
      THEN [partition |-> val[2], resource |-> val]
      ELSE IF Len(val) > 1 /\ val[1] \in {"aws", "aws-cn", "aws-us-gov"}
      THEN [partition |-> val[1], resource |-> Tail(val)]
      ELSE [partition |-> "aws", resource |-> val]

\* variant of _share_list_filtered that keeps the entries of every partition
share_list_filtered_any_partition(share_conf) ==
    [i \in DOMAIN share_conf |-> [UserId |-> split_partition(share_conf[i]).resource]]

\* image.py:163-179
share_list_filtered(share_conf) ==
    LET kept == SelectSeq(share_conf, LAMBDA sh : split_partition(sh).partition = partition_current)
    IN [i \in DOMAIN kept |-> [UserId |-> split_partition(kept[i]).resource]]

\* ----------------------------------------------------------- EC2 lookups
HasName(tags, name) == "Name" \in DOMAIN tags /\ tags["Name"] = name

\* variant of describe_snapshots that leaves pending snapshots out
describe_snapshots_completed_only(r, name) ==
    {i \in DOMAIN snaps[r] : /\ HasName(snaps[r][i].Tags, name)
                             /\ snaps[r][i].Status = "completed"}

\* describe_snapshots(tag:Name = name, status in pending / completed) in region r
describe_snapshots(r, name) ==
    {i \in DOMAIN snaps[r] : /\ HasName(snaps[r][i].Tags, name)
                             /\ snaps[r][i].Status \in {"pending", "completed"}}

\* variant of Snapshot._get that finds snapshots in the bucket region only
Snapshot_get_home_only(r, name) ==
    LET found == IF r = bucket_region THEN describe_snapshots(r, name) ELSE {}
    IN IF Cardinality(found) = 1 THEN [kind |-> "one", id |-> CHOOSE i \in found : TRUE]
       ELSE IF Cardinality(found) = 0 THEN [kind |-> "none", id |-> 0]
       ELSE [kind |-> "MultipleSnapshotsException", id |-> 0]

\* variant of Snapshot._get that picks one of several matches
Snapshot_get_pick_one(r, name) ==
    LET found == describe_snapshots(r, name)
    IN IF Cardinality(found) >= 1 THEN [kind |-> "one", id |-> CHOOSE i \in found : TRUE]
       ELSE [kind |-> "none", id |-> 0]

\* snapshot.py:21-58: Snapshot._get
Snapshot_get(r, name) ==
    LET found == describe_snapshots(r, name)
    IN IF Cardinality(found) = 1 THEN [kind |-> "one", id |-> CHOOSE i \in found : TRUE]
       ELSE IF Cardinality(found) = 0 THEN [kind |-> "none", id |-> 0]
       ELSE [kind |-> "MultipleSnapshotsException", id |-> 0]

\* variant of the status filter that drops deleted tasks only
import_tasks_not_deleted(name) ==
    {t \in DOMAIN tasks : /\ HasName(tasks[t].Tags, name)
                          /\ tasks[t].Status # "deleted"}

\* describe_import_snapshot_tasks(tag:Name = name) and the status filter of snapshot.py:88
import_tasks_in_flight(name) ==
    {t \in DOMAIN tasks : /\ HasName(tasks[t].Tags, name)
                          /\ tasks[t].Status \notin {"deleted", "completed"}}

\* variant of Snapshot._get_import_snapshot_task that picks one of several tasks
Snapshot_get_import_snapshot_task_pick_one(name) ==
    LET found == import_tasks_in_flight(name)
    IN IF Cardinality(found) >= 1 THEN [kind |-> "one", id |-> CHOOSE t \in found : TRUE]
       ELSE [kind |-> "none", id |-> 0]

\* snapshot.py:60-97: Snapshot._get_import_snapshot_task
Snapshot_get_import_snapshot_task(name) ==
    LET found == import_tasks_in_flight(name)
    IN IF Cardinality(found) = 1 THEN [kind |-> "one", id |-> CHOOSE t \in found : TRUE]
       ELSE IF Cardinality(found) = 0 THEN [kind |-> "none", id |-> 0]
       ELSE [kind |-> "MultipleImportSnapshotTasksException", id |-> 0]

\* describe_images(name = image_name, Owners = self) in region r
describe_images(r) ==
    {i \in DOMAIN imgs[r] : imgs[r][i].Name = image_name /\ ~imgs[r][i].Deregistered}

\* variant of Image._get that never finds an image
Image_get_never(r) == [kind |-> "none", info |-> [image_id |-> 0, snapshot_id |-> 0]]

\* image.py:238-267: Image._get
Image_get(r) ==
    LET found == describe_images(r)
    IN IF Cardinality(found) = 1
         THEN LET i == CHOOSE j \in found : TRUE
              IN [kind |-> "one", info |-> [image_id |-> i, snapshot_id |-> imgs[r][i].SnapshotId]]
       ELSE IF Cardinality(found) = 0 THEN [kind |-> "none", info |-> [image_id |-> 0, snapshot_id |-> 0]]
       ELSE [kind |-> "MultipleImagesException", info |-> [image_id |-> 0, snapshot_id |-> 0]]

name_of == snapshot_name(file, conf)
regions_of == image_regions(conf)

\* -------------------------------------------------- Snapshot (snapshot.py)
ec2frame == <<s3vars, s3loc, hist, conf, op, runs, last>>

\* Snapshot.create returns sid: to the caller of the entry point, or on into Image.create
Snapshot_create_return(p, sid) ==
    IF op[p] = "Snapshot_create"
      THEN /\ Goto(p, "done")
           /\ ret' = [ret EXCEPT ![p].snapshot_id = sid]
           /\ loc' = [loc EXCEPT ![p] = LocInit]
      ELSE /\ Goto(p, IF Len(regions_of) = 0 THEN "share" ELSE "Snapshot_copy")
           /\ ret' = ret
           /\ loc' = [loc EXCEPT ![p].snapshot_id = sid, ![p].i = 1, ![p].attempts = 0]

\* snapshot.py:111-115
Snapshot_create(p) ==
    /\ pc[p] = "Snapshot_create"
    /\ LET snap == Snapshot_get(bucket_region, name_of)
       IN IF snap.kind = "one"
            THEN /\ Snapshot_create_return(p, snap.id)
                 /\ err' = err
            ELSE IF snap.kind = "none"
            THEN /\ Goto(p, "get_import_snapshot_task")
                 /\ UNCHANGED <<loc, ret, err>>
            ELSE /\ Raise(p, snap.kind)
                 /\ ret' = ret
    /\ UNCHANGED <<ec2frame, ec2vars, issued>>

\* snapshot.py:126-132
Snapshot_get_import_task(p) ==
    /\ pc[p] = "get_import_snapshot_task"
    /\ LET task == Snapshot_get_import_snapshot_task(name_of)
       IN IF task.kind = "one"
            THEN /\ Goto(p, "waiter_import")
                 /\ loc' = [loc EXCEPT ![p].import_snapshot_task_id = task.id]
                 /\ err' = err
            ELSE IF task.kind = "none"
            THEN /\ Goto(p, "import_snapshot")
                 /\ UNCHANGED <<loc, err>>
            ELSE Raise(p, task.kind)
    /\ UNCHANGED <<ec2frame, ec2vars, issued, ret>>

\* snapshot.py:134-148: the task is tagged, the snapshot it will produce is not
Snapshot_import_snapshot(p) ==
    /\ pc[p] = "import_snapshot"
    /\ tasks' = Append(tasks, [Status |-> "active", SnapshotId |-> 0,
                               Tags |-> snapshot_tags(file, conf)])
    /\ loc' = [loc EXCEPT ![p].import_snapshot_task_id = Len(tasks) + 1]
    /\ Issue(p, "import_snapshot")
    /\ Goto(p, "waiter_import")
    /\ UNCHANGED <<ec2frame, snaps, imgs, ret, err>>

\* variant of the import wait that goes on to the completion wait without the tags
Snapshot_waiter_import_untagged(p) ==
    /\ pc[p] = "waiter_import"
    /\ LET t == loc[p].import_snapshot_task_id
       IN IF tasks[t].Status = "completed"
            THEN /\ Goto(p, "waiter_completed")
                 /\ loc' = [loc EXCEPT ![p].snapshot_id = tasks[t].SnapshotId,
                                       ![p].attempts = 0]
                 /\ Issue(p, "wait")
                 /\ err' = err
            ELSE WaiterRetry(p)
    /\ UNCHANGED <<ec2frame, ec2vars, ret>>

\* snapshot.py:155-159: the snapshot_imported waiter ends with the task completed or
\* raises; then the task's snapshot id is read
Snapshot_waiter_import(p) ==
    /\ pc[p] = "waiter_import"
    /\ LET t == loc[p].import_snapshot_task_id
       IN IF tasks[t].Status = "completed"
            THEN /\ Goto(p, "create_tags")
                 /\ loc' = [loc EXCEPT ![p].snapshot_id = tasks[t].SnapshotId,
                                       ![p].attempts = 0]
                 /\ Issue(p, "wait")
                 /\ err' = err
            ELSE WaiterRetry(p)
    /\ UNCHANGED <<ec2frame, ec2vars, ret>>

\* snapshot.py:161-162
Snapshot_create_tags(p) ==
    /\ pc[p] = "create_tags"
    /\ snaps' = [snaps EXCEPT ![bucket_region][loc[p].snapshot_id].Tags =
                                   WithTags(@, snapshot_tags(file, conf))]
    /\ Issue(p, "create_tags_snapshot")
    /\ Goto(p, "waiter_completed")
    /\ UNCHANGED <<ec2frame, tasks, imgs, loc, ret, err>>

\* snapshot.py:164-168
Snapshot_waiter_completed(p) ==
    /\ pc[p] = "waiter_completed"
    /\ IF snaps[bucket_region][loc[p].snapshot_id].Status = "completed"
         THEN /\ Snapshot_create_return(p, loc[p].snapshot_id)
              /\ Issue(p, "wait")
              /\ err' = err
         ELSE /\ WaiterRetry(p)
              /\ ret' = ret
    /\ UNCHANGED <<ec2frame, ec2vars>>

\* the loop over the region list moves on, or the next phase starts at its head
Advance(p, l, here, after) ==
    /\ Goto(p, IF l.i + 1 > Len(regions_of) THEN after ELSE here)
    /\ loc' = [loc EXCEPT ![p] = [l EXCEPT !.i = IF l.i + 1 > Len(regions_of) THEN 1 ELSE l.i + 1]]

\* snapshot.py:186-202 for the region the loop of snapshot.py:231 is at
Snapshot_copy(p) ==
    /\ pc[p] = "Snapshot_copy"
    /\ LET r == regions_of[loc[p].i]
           dest == Snapshot_get(r, name_of)
           source == Snapshot_get(bucket_region, name_of)
       IN IF dest.kind = "one"
            THEN /\ Advance(p, [loc[p] EXCEPT !.snapshot_ids = (r :> dest.id) @@ @],
                            "Snapshot_copy", "copy_wait")
                 /\ err' = err
            ELSE IF dest.kind # "none" THEN Raise(p, dest.kind)
            ELSE IF source.kind = "none" THEN Raise(p, "ValueError")
            ELSE IF source.kind # "one" THEN Raise(p, source.kind)
            ELSE /\ Goto(p, "copy_snapshot")
                 /\ loc' = [loc EXCEPT ![p].source_snapshot_id = source.id]
                 /\ err' = err
    /\ UNCHANGED <<ec2frame, ec2vars, issued, ret>>

\* snapshot.py:204-215: the copy is tagged when it is created, and is not waited for
Snapshot_copy_snapshot(p) ==
    /\ pc[p] = "copy_snapshot"
    /\ LET r == regions_of[loc[p].i]
       IN /\ snaps' = [snaps EXCEPT ![r] = Append(@,
                          [Status |-> "pending", Tags |-> snapshot_tags(file, conf),
                           CreateVolumePermission |-> {},
                           SourceStatus |-> snaps[bucket_region][loc[p].source_snapshot_id].Status])]
          /\ Advance(p, [loc[p] EXCEPT !.snapshot_ids = (r :> (Len(snaps[r]) + 1)) @@ @],
                     "Snapshot_copy", "copy_wait")
    /\ Issue(p, "copy_snapshot")
    /\ UNCHANGED <<ec2frame, tasks, imgs, ret, err>>

\* variant of the wait of Snapshot.copy that returns whatever the status
Snapshot_copy_wait_skipped(p) ==
    /\ pc[p] = "copy_wait"
    /\ Advance(p, [loc[p] EXCEPT !.attempts = 0], "copy_wait", "Image_get")
    /\ Issue(p, "wait")
    /\ UNCHANGED <<ec2frame, ec2vars, ret, err>>

\* variant of the wait of Snapshot.copy that goes on with the copy of the next region
Snapshot_copy_wait_then_copy(p) ==
    /\ pc[p] = "copy_wait"
    /\ LET r == regions_of[loc[p].i]
       IN IF snaps[r][loc[p].snapshot_ids[r]].Status = "completed"
            THEN /\ Advance(p, [loc[p] EXCEPT !.attempts = 0], "Snapshot_copy", "Image_get")
                 /\ Issue(p, "wait")
                 /\ err' = err
            ELSE WaiterRetry(p)
    /\ UNCHANGED <<ec2frame, ec2vars, ret>>

\* snapshot.py:235-239 for one entry of snapshot_ids
Snapshot_copy_wait(p) ==
    /\ pc[p] = "copy_wait"
    /\ LET r == regions_of[loc[p].i]
       IN IF snaps[r][loc[p].snapshot_ids[r]].Status = "completed"
            THEN /\ Advance(p, [loc[p] EXCEPT !.attempts = 0], "copy_wait", "Image_get")
                 /\ Issue(p, "wait")
                 /\ err' = err
            ELSE WaiterRetry(p)
    /\ UNCHANGED <<ec2frame, ec2vars, ret>>

\* ------------------------------------------------------- Image (image.py)
\* image.py:430-445 for the region the loop is at
Image_create_get(p) ==
    /\ pc[p] = "Image_get"
    /\ LET r == regions_of[loc[p].i]
           image_info == Image_get(r)
       IN IF image_info.kind = "one"
            THEN /\ Advance(p, [loc[p] EXCEPT !.images = (r :> image_info.info) @@ @],
                            "Image_get", "image_wait")
                 /\ err' = err
            ELSE IF image_info.kind = "none"
            THEN /\ Goto(p, "register_image")
                 /\ UNCHANGED <<loc, err>>
            ELSE Raise(p, image_info.kind)
    /\ UNCHANGED <<ec2frame, ec2vars, issued, ret>>

\* image.py:452-490
Image_register_image(p) ==
    /\ pc[p] = "register_image"
    /\ LET r == regions_of[loc[p].i]
       IN /\ imgs' = [imgs EXCEPT ![r] = Append(@,
                         [Name |-> image_name, SnapshotId |-> loc[p].snapshot_ids[r],
                          State |-> "pending", Tags |-> NoTags, LaunchPermission |-> {},
                          Deregistered |-> FALSE, Attributes |-> RegisteredAttributes(conf)])]
          /\ loc' = [loc EXCEPT ![p].image_id = Len(imgs[r]) + 1]
    /\ Issue(p, "register_image")
    /\ Goto(p, "create_tags_image")
    /\ UNCHANGED <<ec2frame, tasks, snaps, ret, err>>

\* image.py:491-492
Image_create_tags(p) ==
    /\ pc[p] = "create_tags_image"
    /\ LET r == regions_of[loc[p].i]
       IN /\ imgs' = [imgs EXCEPT ![r][loc[p].image_id].Tags = WithTags(@, Image_tags(file, conf))]
          /\ Advance(p, [loc[p] EXCEPT !.images =
                            (r :> [image_id |-> loc[p].image_id,
                                   snapshot_id |-> loc[p].snapshot_ids[r]]) @@ @],
                     "Image_get", "image_wait")
    /\ Issue(p, "create_tags_image")
    /\ UNCHANGED <<ec2frame, tasks, snaps, ret, err>>

\* variant of the image wait that returns whatever the state of the image
Image_wait_skipped(p) ==
    /\ pc[p] = "image_wait"
    /\ Advance(p, [loc[p] EXCEPT !.attempts = 0], "image_wait", "share")
    /\ Issue(p, "wait")
    /\ UNCHANGED <<ec2frame, ec2vars, ret, err>>

\* image.py:496-505 for one entry of images: image_exists, then image_available
Image_wait(p) ==
    /\ pc[p] = "image_wait"
    /\ LET r == regions_of[loc[p].i]
           image == imgs[r][loc[p].images[r].image_id]
       IN IF ~image.Deregistered /\ image.State = "available"
            THEN /\ Advance(p, [loc[p] EXCEPT !.attempts = 0], "image_wait", "share")
                 /\ Issue(p, "wait")
                 /\ err' = err
            ELSE WaiterRetry(p)
    /\ UNCHANGED <<ec2frame, ec2vars, ret>>

\* Image.create returns images
Image_create_return(p) ==
    /\ Goto(p, "done")
    /\ ret' = [ret EXCEPT ![p].images = [r \in DOMAIN loc[p].images |-> loc[p].images[r].image_id]]
    /\ loc' = [loc EXCEPT ![p] = LocInit]

\* variant of the sharing step that does not look at the share list
Image_share_unconditional(p) ==
    /\ pc[p] = "share"
    /\ IF loc[p].images # NoMap
         THEN /\ Goto(p, "modify_image_attribute")
              /\ loc' = [loc EXCEPT ![p].i = 1]
              /\ ret' = ret
         ELSE Image_create_return(p)
    /\ UNCHANGED <<ec2frame, ec2vars, issued, err>>

\* image.py:508-512 and 190-194
Image_share(p) ==
    /\ pc[p] = "share"
    /\ IF conf.share # <<>> /\ share_list_filtered(conf.share) # <<>> /\ loc[p].images # NoMap
         THEN /\ Goto(p, "modify_image_attribute")
              /\ loc' = [loc EXCEPT ![p].i = 1]
              /\ ret' = ret
         ELSE Image_create_return(p)
    /\ UNCHANGED <<ec2frame, ec2vars, issued, err>>

UserIds(share_list) == {share_list[i].UserId : i \in DOMAIN share_list}

\* image.py:196-203
Image_modify_image_attribute(p) ==
    /\ pc[p] = "modify_image_attribute"
    /\ LET r == regions_of[loc[p].i]
           info == loc[p].images[r]
       IN /\ imgs' = [imgs EXCEPT ![r][info.image_id].LaunchPermission =
                                      @ \cup UserIds(share_list_filtered(conf.share))]
          /\ IF info.snapshot_id # 0
               THEN /\ Goto(p, "modify_snapshot_attribute")
                    /\ UNCHANGED <<loc, ret>>
               ELSE IF loc[p].i + 1 > Len(regions_of)
               THEN Image_create_return(p)
               ELSE /\ Goto(p, "modify_image_attribute")
                    /\ loc' = [loc EXCEPT ![p].i = @ + 1]
                    /\ ret' = ret
    /\ Issue(p, "modify_image_attribute")
    /\ UNCHANGED <<ec2frame, tasks, snaps, err>>

\* image.py:205-211
Image_modify_snapshot_attribute(p) ==
    /\ pc[p] = "modify_snapshot_attribute"
    /\ LET r == regions_of[loc[p].i]
           info == loc[p].images[r]
       IN IF info.snapshot_id \notin DOMAIN snaps[r]
            THEN /\ Raise(p, "ClientError")
                 /\ UNCHANGED <<snaps, ret>>
            ELSE /\ snaps' = [snaps EXCEPT ![r][info.snapshot_id].CreateVolumePermission =
                                               @ \cup UserIds(share_list_filtered(conf.share))]
                 /\ err' = err
                 /\ IF loc[p].i + 1 > Len(regions_of)
                      THEN Image_create_return(p)
                      ELSE /\ Goto(p, "modify_image_attribute")
                           /\ loc' = [loc EXCEPT ![p].i = @ + 1]
                           /\ ret' = ret
    /\ Issue(p, "modify_snapshot_attribute")
    /\ UNCHANGED <<ec2frame, tasks, imgs>>

\* ------------------------------------- Image.publish, cleanup, list and verify
\* the launch permission entry {"Group": "all"}; createVolumePermission group "all"
GroupAll == <<"Group", "all">>

\* the Public attribute of a described image
Public(image) == GroupAll \in image.LaunchPermission

\* the loop over image_regions goes on with the next region, or the operation returns
\* what it collected
Image_next_region(p, here, newloc, value) ==
    IF newloc.i + 1 > Len(regions_of)
      THEN /\ Goto(p, "done")
           /\ ret' = [ret EXCEPT ![p].images = IF value = "images"
                                                 THEN [r \in DOMAIN newloc.images |-> newloc.images[r].image_id]
                                                 ELSE NoMap,
                                 ![p].problems = IF value = "problems" THEN newloc.problems ELSE NoMap]
           /\ loc' = [loc EXCEPT ![p] = LocInit]
      ELSE /\ Goto(p, here)
           /\ loc' = [loc EXCEPT ![p] = [newloc EXCEPT !.i = @ + 1]]
           /\ ret' = ret

\* the loop over image_regions begins
Image_first_region(p, here) ==
    IF regions_of = <<>>
      THEN /\ Goto(p, "done")
           /\ UNCHANGED <<loc, ret>>
      ELSE /\ Goto(p, here)
           /\ loc' = [loc EXCEPT ![p].i = 1]
           /\ ret' = ret

\* variant of Image.publish without the check of the temporary flag
Image_publish_temporary_too(p) ==
    /\ pc[p] = "publish"
    /\ IF conf.public
         THEN Image_first_region(p, "public_get")
         ELSE /\ Goto(p, "done")
              /\ UNCHANGED <<loc, ret>>
    /\ UNCHANGED <<ec2frame, ec2vars, issued, err>>

\* image.py:514-531: Image.publish (no ssm_parameter and no marketplace configured)
Image_publish(p) ==
    /\ pc[p] = "publish"
    /\ IF conf.temporary
         THEN /\ Goto(p, "done")
              /\ UNCHANGED <<loc, ret>>
         ELSE IF conf.public
         THEN Image_first_region(p, "public_get")
         ELSE /\ Goto(p, "done")
              /\ UNCHANGED <<loc, ret>>
    /\ UNCHANGED <<ec2frame, ec2vars, issued, err>>

\* image.py:320-323 and 353-354: Image._public looks the image of the region up
Image_public_get(p) ==
    /\ pc[p] = "public_get"
    /\ LET r == regions_of[loc[p].i]
           image_info == Image_get(r)
       IN IF image_info.kind = "one"
            THEN /\ Goto(p, "public_modify_image")
                 /\ loc' = [loc EXCEPT ![p].images = (r :> image_info.info) @@ @]
                 /\ UNCHANGED <<ret, err>>
            ELSE IF image_info.kind = "none"
            THEN /\ Image_next_region(p, "public_get", loc[p], None)
                 /\ err' = err
            ELSE /\ Raise(p, image_info.kind)
                 /\ ret' = ret
    /\ UNCHANGED <<ec2frame, ec2vars, issued>>

\* variant of the image step of Image._public that leaves the snapshot alone
Image_public_modify_image_only(p) ==
    /\ pc[p] = "public_modify_image"
    /\ LET r == regions_of[loc[p].i]
           info == loc[p].images[r]
       IN /\ imgs' = [imgs EXCEPT ![r][info.image_id].LaunchPermission = @ \cup {GroupAll}]
          /\ Image_next_region(p, "public_get", loc[p], None)
    /\ Issue(p, "modify_image_attribute")
    /\ UNCHANGED <<ec2frame, tasks, snaps, err>>

\* image.py:324-335 and 346-351
Image_public_modify_image(p) ==
    /\ pc[p] = "public_modify_image"
    /\ LET r == regions_of[loc[p].i]
           info == loc[p].images[r]
       IN /\ imgs' = [imgs EXCEPT ![r][info.image_id].LaunchPermission = @ \cup {GroupAll}]
          /\ IF info.snapshot_id # 0
               THEN /\ Goto(p, "public_modify_snapshot")
                    /\ UNCHANGED <<loc, ret>>
               ELSE Image_next_region(p, "public_get", loc[p], None)
    /\ Issue(p, "modify_image_attribute")
    /\ UNCHANGED <<ec2frame, tasks, snaps, err>>

\* image.py:336-345
Image_public_modify_snapshot(p) ==
    /\ pc[p] = "public_modify_snapshot"
    /\ LET r == regions_of[loc[p].i]
           info == loc[p].images[r]
       IN IF info.snapshot_id \notin DOMAIN snaps[r]
            THEN /\ Raise(p, "ClientError")
                 /\ UNCHANGED <<snaps, ret>>
            ELSE /\ snaps' = [snaps EXCEPT ![r][info.snapshot_id].CreateVolumePermission =
                                               @ \cup {GroupAll}]
                 /\ err' = err
                 /\ Image_next_region(p, "public_get", loc[p], None)
    /\ Issue(p, "modify_snapshot_attribute")
    /\ UNCHANGED <<ec2frame, tasks, imgs>>

\* image.py:367-373: Image.cleanup
Image_cleanup(p) ==
    /\ pc[p] = "cleanup"
    /\ IF ~conf.temporary
         THEN /\ Goto(p, "done")
              /\ UNCHANGED <<loc, ret>>
         ELSE Image_first_region(p, "cleanup_get")
    /\ UNCHANGED <<ec2frame, ec2vars, issued, err>>

\* image.py:373-377
Image_cleanup_get(p) ==
    /\ pc[p] = "cleanup_get"
    /\ LET r == regions_of[loc[p].i]
           image_info == Image_get(r)
       IN IF image_info.kind = "one"
            THEN /\ Goto(p, "cleanup_describe")
                 /\ loc' = [loc EXCEPT ![p].images = (r :> image_info.info) @@ @]
                 /\ UNCHANGED <<ret, err>>
            ELSE IF image_info.kind = "none"
            THEN /\ Image_next_region(p, "cleanup_get", loc[p], None)
                 /\ err' = err
            ELSE /\ Raise(p, image_info.kind)
                 /\ ret' = ret
    /\ UNCHANGED <<ec2frame, ec2vars, issued>>

\* variant of the test of the live image in Image.cleanup that does not look at Public
Image_cleanup_describe_public_too(p) ==
    /\ pc[p] = "cleanup_describe"
    /\ Goto(p, "deregister_image")
    /\ UNCHANGED <<ec2frame, ec2vars, issued, loc, ret, err>>

\* image.py:378-388: the image is described by its id; a public one is kept
Image_cleanup_describe(p) ==
    /\ pc[p] = "cleanup_describe"
    /\ LET r == regions_of[loc[p].i]
           image == imgs[r][loc[p].images[r].image_id]
       IN IF image.Deregistered
            THEN /\ Raise(p, "IndexError")
                 /\ ret' = ret
            ELSE IF Public(image)
            THEN /\ Image_next_region(p, "cleanup_get", loc[p], None)
                 /\ err' = err
            ELSE /\ Goto(p, "deregister_image")
                 /\ UNCHANGED <<loc, ret, err>>
    /\ UNCHANGED <<ec2frame, ec2vars, issued>>

\* variant of the deregistration that also strips the tags of the root device snapshot
Image_deregister_image_and_snapshot(p) ==
    /\ pc[p] = "deregister_image"
    /\ LET r == regions_of[loc[p].i]
           info == loc[p].images[r]
       IN /\ imgs' = [imgs EXCEPT ![r][info.image_id].Deregistered = TRUE]
          /\ snaps' = [snaps EXCEPT ![r][info.snapshot_id].Tags = NoTags]
          /\ Image_next_region(p, "cleanup_get", loc[p], None)
    /\ Issue(p, "deregister_image")
    /\ UNCHANGED <<ec2frame, tasks, err>>

\* image.py:389-391
Image_deregister_image(p) ==
    /\ pc[p] = "deregister_image"
    /\ LET r == regions_of[loc[p].i]
           info == loc[p].images[r]
       IN /\ imgs' = [imgs EXCEPT ![r][info.image_id].Deregistered = TRUE]
          /\ Image_next_region(p, "cleanup_get", loc[p], None)
    /\ Issue(p, "deregister_image")
    /\ UNCHANGED <<ec2frame, tasks, snaps, err>>

\* image.py:401-402: Image.list
Image_list(p) ==
    /\ pc[p] = "list"
    /\ Image_first_region(p, "list_get")
    /\ UNCHANGED <<ec2frame, ec2vars, issued, err>>

\* variant of the loop of Image.list that tags the image it finds
Image_list_get_tagging(p) ==
    /\ pc[p] = "list_get"
    /\ LET r == regions_of[loc[p].i]
           image_info == Image_get(r)
       IN IF image_info.kind = "one"
            THEN /\ Image_next_region(p, "list_get",
                                      [loc[p] EXCEPT !.images = (r :> image_info.info) @@ @], "images")
                 /\ imgs' = [imgs EXCEPT ![r][image_info.info.image_id].Tags =
                                            WithTags(@, Image_tags(file, conf))]
                 /\ Issue(p, "create_tags_image")
                 /\ err' = err
            ELSE IF image_info.kind = "none"
            THEN /\ Image_next_region(p, "list_get", loc[p], "images")
                 /\ UNCHANGED <<imgs, issued, err>>
            ELSE /\ Raise(p, image_info.kind)
                 /\ UNCHANGED <<imgs, issued, ret>>
    /\ UNCHANGED <<ec2frame, tasks, snaps>>

\* image.py:402-409
Image_list_get(p) ==
    /\ pc[p] = "list_get"
    /\ LET r == regions_of[loc[p].i]
           image_info == Image_get(r)
       IN IF image_info.kind = "one"
            THEN /\ Image_next_region(p, "list_get",
                                      [loc[p] EXCEPT !.images = (r :> image_info.info) @@ @], "images")
                 /\ err' = err
            ELSE IF image_info.kind = "none"
            THEN /\ Image_next_region(p, "list_get", loc[p], "images")
                 /\ err' = err
            ELSE /\ Raise(p, image_info.kind)
                 /\ ret' = ret
    /\ UNCHANGED <<ec2frame, ec2vars, issued>>

\* image.py:573-616: the checks of Image._verify on the described image and its root
\* device snapshot, in the order of the code
Image_verify_problems(image, snapshot, c, name) ==
    LET a == image.Attributes
        Check(wrong, e) == IF wrong THEN <<e>> ELSE <<>>
        billing == c.billing_products.given /\ c.billing_products.codes # <<>>
    IN Check(image.State # "available", "STATE_NOT_AVAILABLE")
       \o Check(a.RootDeviceType # "ebs", "ROOT_DEVICE_TYPE")
       \o Check(a.BootMode # c.boot_mode, "BOOT_MODE")
       \o Check(a.VolumeType # c.root_device_volume_type, "ROOT_DEVICE_VOLUME_TYPE")
       \o Check(a.VolumeSize # c.root_device_volume_size, "ROOT_DEVICE_VOLUME_SIZE")
       \o Check(snapshot.Status # "completed", "ROOT_DEVICE_SNAPSHOT_NOT_COMPLETE")
       \o Check(c.tpm_support # None /\ a.TpmSupport # c.tpm_support, "TPM_SUPPORT")
       \o Check(c.imds_support # None /\ a.ImdsSupport # c.imds_support, "IMDS_SUPPORT")
       \o Check(billing /\ a.BillingProducts # c.billing_products.codes, "BILLING_PRODUCTS")
       \o Check("Name" \in DOMAIN image.Tags /\ image.Tags["Name"] # name, "TAGS")

\* image.py:624-628: Image.verify
Image_verify(p) ==
    /\ pc[p] = "verify"
    /\ Image_first_region(p, "verify_get")
    /\ UNCHANGED <<ec2frame, ec2vars, issued, err>>

\* image.py:563-569: Image._verify looks the image up; NOT_EXIST when there is none
Image_verify_get(p) ==
    /\ pc[p] = "verify_get"
    /\ LET r == regions_of[loc[p].i]
           image_info == Image_get(r)
       IN IF image_info.kind = "one"
            THEN /\ Goto(p, "verify_describe")
                 /\ loc' = [loc EXCEPT ![p].images = (r :> image_info.info) @@ @]
                 /\ UNCHANGED <<ret, err>>
            ELSE IF image_info.kind = "none"
            THEN /\ Image_next_region(p, "verify_get",
                                      [loc[p] EXCEPT !.problems = (r :> <<"NOT_EXIST">>) @@ @], "problems")
                 /\ err' = err
            ELSE /\ Raise(p, image_info.kind)
                 /\ ret' = ret
    /\ UNCHANGED <<ec2frame, ec2vars, issued>>

\* image.py:571-618: describe_images by id, describe_snapshots of the root device
Image_verify_describe(p) ==
    /\ pc[p] = "verify_describe"
    /\ LET r == regions_of[loc[p].i]
           info == loc[p].images[r]
           image == imgs[r][info.image_id]
       IN IF image.Deregistered
            THEN /\ Raise(p, "IndexError")
                 /\ ret' = ret
            ELSE IF info.snapshot_id \notin DOMAIN snaps[r]
            THEN /\ Raise(p, "ClientError")
                 /\ ret' = ret
            ELSE /\ Image_next_region(p, "verify_get",
                        [loc[p] EXCEPT !.problems =
                            (r :> Image_verify_problems(image, snaps[r][info.snapshot_id],
                                                        conf, name_of)) @@ @], "problems")
                 /\ err' = err
    /\ UNCHANGED <<ec2frame, ec2vars, issued>>

\* the steps of publish, cleanup, list and verify
LifecycleStep(p) ==
    \/ Image_publish(p)
    \/ Image_public_get(p)
    \/ Image_public_modify_image(p)
    \/ Image_public_modify_snapshot(p)
    \/ Image_cleanup(p)
    \/ Image_cleanup_get(p)
    \/ Image_cleanup_describe(p)
    \/ Image_deregister_image(p)
    \/ Image_list(p)
    \/ Image_list_get(p)
    \/ Image_verify(p)
    \/ Image_verify_get(p)
    \/ Image_verify_describe(p)

\* ------------------------------------------------------- the provider's own steps
procframe == <<pc, op, err, runs, s3loc, issued, hist, loc, ret, last>>

\* an import task ends: its snapshot appears, untagged, in the bucket region
EC2_import_task_completes(t) ==
    /\ tasks[t].Status = "active"
    /\ snaps' = [snaps EXCEPT ![bucket_region] = Append(@,
                    [Status |-> "pending", Tags |-> NoTags, CreateVolumePermission |-> {},
                     SourceStatus |-> None])]
    /\ tasks' = [tasks EXCEPT ![t].Status = "completed",
                              ![t].SnapshotId = Len(snaps[bucket_region]) + 1]
    /\ UNCHANGED <<s3vars, conf, imgs, procframe>>

\* an import task is cancelled or fails
EC2_import_task_deleted(t) ==
    /\ tasks[t].Status = "active"
    /\ tasks' = [tasks EXCEPT ![t].Status = "deleted"]
    /\ UNCHANGED <<s3vars, conf, snaps, imgs, procframe>>

EC2_snapshot_completes(r, i) ==
    /\ snaps[r][i].Status = "pending"
    /\ snaps' = [snaps EXCEPT ![r][i].Status = "completed"]
    /\ UNCHANGED <<s3vars, conf, tasks, imgs, procframe>>

EC2_image_available(r, i) ==
    /\ imgs[r][i].State = "pending"
    /\ imgs' = [imgs EXCEPT ![r][i].State = "available"]
    /\ UNCHANGED <<s3vars, conf, tasks, snaps, procframe>>

Provider ==
    \/ \E t \in DOMAIN tasks : EC2_import_task_completes(t)
    \/ \E t \in DOMAIN tasks : EC2_import_task_deleted(t)
    \/ \E r \in Regions : \E i \in DOMAIN snaps[r] : EC2_snapshot_completes(r, i)
    \/ \E r \in Regions : \E i \in DOMAIN imgs[r] : EC2_image_available(r, i)

\* ------------------------------------------------------------------- runs
\* a new run of an entry point; the previous run of the process is over
Start(p, entry, first) ==
    /\ ~Running(p)
    /\ runs[p] < MaxRuns
    /\ runs' = [runs EXCEPT ![p] = @ + 1]
    /\ op' = [op EXCEPT ![p] = entry]
    /\ pc' = [pc EXCEPT ![p] = first]
    /\ err' = [err EXCEPT ![p] = None]
    /\ issued' = [issued EXCEPT ![p] = NoCalls]
    /\ s3loc' = [s3loc EXCEPT ![p] = S3LocInit]
    /\ loc' = [loc EXCEPT ![p] = LocInit]
    /\ last' = [last EXCEPT ![p] = [done |-> pc[p] = "done", ret |-> ret[p],
                                    returned |-> @.returned + (IF pc[p] = "done" THEN 1 ELSE 0)]]
    /\ ret' = [ret EXCEPT ![p] = NoRet]
    /\ UNCHANGED <<s3vars, hist, conf, ec2vars>>

\* the process is killed between two calls
Crash(p) ==
    /\ Running(p)
    /\ Raise(p, "crash")
    /\ UNCHANGED <<s3vars, op, runs, issued, hist, conf, ec2vars, ret, last>>

\* ------------------------------------------------- S3.upload_file on its own
ForeignObject == [ChecksumSHA256 |-> CompositeChecksum(<<StoredPart(ForeignBody)>>), TagSet |-> NoTags]

\* parts a foreign upload of the same key may hold: per part number nothing, the
\* file's chunk, or another body
InitPartsOf(f) ==
    {ps \in UNION {[D -> {"chunk", "foreign"}] : D \in SUBSET (1..MaxStoredPart)} :
        \A n \in DOMAIN ps : ps[n] = "chunk" => n <= NumChunks(f)}

InitParts(f, ps) ==
    [n \in DOMAIN ps |-> IF ps[n] = "chunk" THEN StoredPart(Chunk(f, n)) ELSE StoredPart(ForeignBody)]

\* bucket listings before the first run: uploads of this key (ids 1, 2) and of another key (3)
InitUploads(f) ==
    LET M(ps) == [UploadId |-> 1, Key |-> source_sha256(f), Parts |-> InitParts(f, ps)]
        M2 == [UploadId |-> 2, Key |-> source_sha256(f), Parts |-> EmptyParts]
        F == [UploadId |-> 3, Key |-> ForeignKey, Parts |-> EmptyParts]
    IN {<<>>, <<F>>}
       \cup {<<M(ps)>> : ps \in InitPartsOf(f)}
       \cup {<<F, M(ps)>> : ps \in InitPartsOf(f)}
       \cup {<<M(ps), M2>> : ps \in InitPartsOf(f)}

ProcInit ==
    /\ pc = [p \in Procs |-> "idle"]
    /\ op = [p \in Procs |-> None]
    /\ err = [p \in Procs |-> None]
    /\ runs = [p \in Procs |-> 0]
    /\ s3loc = [p \in Procs |-> S3LocInit]
    /\ issued = [p \in Procs |-> NoCalls]
    /\ hist = [uploaded |-> EmptyParts, created |-> 0, published |-> <<>>, sns_error |-> None]
    /\ loc = [p \in Procs |-> LocInit]
    /\ ret = [p \in Procs |-> NoRet]
    /\ last = [p \in Procs |-> [done |-> FALSE, ret |-> NoRet, returned |-> 0]]

InitS3 ==
    /\ file \in Files
    /\ bucketExists \in BOOLEAN
    /\ object \in {NoObject, ForeignObject}
    /\ uploads \in InitUploads(file)
    /\ bucketExists = FALSE => object = NoObject /\ uploads = <<>>
    /\ nextUploadId = 4
    /\ conf = DefaultConf
    /\ tasks = <<>>
    /\ snaps = [r \in Regions |-> <<>>]
    /\ imgs = [r \in Regions |-> <<>>]
    /\ ProcInit

S3Step(p) ==
    \/ S3_upload_file(p)
    \/ S3_head_object(p)
    \/ S3_get_multipart_upload_id(p)
    \/ S3_list_parts(p)
    \/ S3_upload_part(p)
    \/ S3_complete_multipart_upload(p)
    \/ S3_put_object_tagging(p)

NextS3 ==
    \/ Start(1, "upload_file", "upload_file")
    \/ Start(1, "bucket_region", "bucket_region")
    \/ S3_bucket_region(1)
    \/ S3Step(1)
    \/ Crash(1)

SpecS3 == InitS3 /\ [][NextS3]_vars

\* --------------------------------------------------------- api.create (api.py:60-85)
EC2Step(p) ==
    \/ Snapshot_create(p)
    \/ Snapshot_get_import_task(p)
    \/ Snapshot_import_snapshot(p)
    \/ Snapshot_waiter_import(p)
    \/ Snapshot_create_tags(p)
    \/ Snapshot_waiter_completed(p)
    \/ Snapshot_copy(p)
    \/ Snapshot_copy_snapshot(p)
    \/ Snapshot_copy_wait(p)
    \/ Image_create_get(p)
    \/ Image_register_image(p)
    \/ Image_create_tags(p)
    \/ Image_wait(p)
    \/ Image_share(p)
    \/ Image_modify_image_attribute(p)
    \/ Image_modify_snapshot_attribute(p)

Confs ==
    {[DefaultConf EXCEPT !.regions = rs, !.share = sh] :
        rs \in {<<"r1", "r2">>, <<"r2">>},
        sh \in {<<>>, << <<"aws", "111111111111">>, <<"aws-cn", "222222222222">> >>}}

Init ==
    /\ file = [i \in 1..MaxFileLen |-> i]
    /\ bucketExists = TRUE
    /\ object = NoObject
    /\ uploads = <<>>
    /\ nextUploadId = 1
    /\ conf \in Confs
    /\ tasks = <<>>
    /\ snaps = [r \in Regions |-> <<>>]
    /\ imgs = [r \in Regions |-> <<>>]
    /\ ProcInit

Next ==
    \/ Start(1, "create", "upload_file")
    \/ S3Step(1)
    \/ EC2Step(1)
    \/ Crash(1)
    \/ Provider

Spec == Init /\ [][Next]_vars

\* ------------------------------------- two overlapping runs of Snapshot.create
\* (the import tasks of these runs are not cancelled)
SnapshotStep(p) ==
    \/ Snapshot_create(p)
    \/ Snapshot_get_import_task(p)
    \/ Snapshot_import_snapshot(p)
    \/ Snapshot_waiter_import(p)
    \/ Snapshot_create_tags(p)
    \/ Snapshot_waiter_completed(p)

InitConc ==
    /\ file = [i \in 1..MaxFileLen |-> i]
    /\ bucketExists = TRUE
    /\ object = NoObject
    /\ uploads = <<>>
    /\ nextUploadId = 1
    /\ conf = DefaultConf
    /\ tasks = <<>>
    /\ snaps = [r \in Regions |-> <<>>]
    /\ imgs = [r \in Regions |-> <<>>]
    /\ ProcInit

NextConc ==
    \/ \E p \in Procs : runs[1] + runs[2] < MaxConcRuns /\ Start(p, "Snapshot_create", "Snapshot_create")
    \/ \E p \in Procs : SnapshotStep(p)
    \/ \E p \in Procs : Crash(p)
    \/ \E t \in DOMAIN tasks : EC2_import_task_completes(t)
    \/ \E i \in DOMAIN snaps[bucket_region] : EC2_snapshot_completes(bucket_region, i)

SpecConc == InitConc /\ [][NextConc]_vars

\* ------------------------- Image.create on an account that already holds resources
\* (left by runs under another configuration, by overlapping runs, or put there by hand)
AccountSnapshot(status, tags) ==
    [Status |-> status, Tags |-> tags, CreateVolumePermission |-> {}, SourceStatus |-> None]

AccountSnapshotsHome ==
    LET T(st) == AccountSnapshot(st, snapshot_tags(file, conf))
        U(st) == AccountSnapshot(st, NoTags)
    IN {<<>>, <<T("completed")>>, <<T("pending")>>, <<T("completed"), T("completed")>>,
        <<U("completed"), T("completed")>>}

AccountSnapshotsOther ==
    LET T(st) == AccountSnapshot(st, snapshot_tags(file, conf))
    IN {<<>>, <<T("completed")>>, <<T("pending"), T("completed")>>}

AccountTasks ==
    LET K(st) == [Status |-> st, SnapshotId |-> 0, Tags |-> snapshot_tags(file, conf)]
    IN {<<>>, <<K("active"), K("active")>>, <<K("completed")>>}

AccountImage(sid) ==
    [Name |-> conf.name, SnapshotId |-> sid, State |-> "available",
     Tags |-> NoTags, LaunchPermission |-> {}, Deregistered |-> FALSE,
     Attributes |-> RegisteredAttributes(conf)]

AccountImagesHome == {<<>>, <<AccountImage(1)>>, <<AccountImage(2)>>}

AccountImagesOther == {<<>>, <<AccountImage(1)>>, <<AccountImage(1), AccountImage(1)>>}

InitAccount ==
    /\ file = [i \in 1..MaxFileLen |-> i]
    /\ bucketExists = TRUE
    /\ object = [ChecksumSHA256 |-> multipart_sha256sum(file), TagSet |-> ctx_tags(file)]
    /\ uploads = <<>>
    /\ nextUploadId = 1
    /\ conf \in {[DefaultConf EXCEPT !.share = sh] :
                    sh \in {<<>>, << <<"aws", "111111111111">> >>}}
    /\ tasks \in AccountTasks
    /\ snaps \in {[r \in Regions |-> IF r = bucket_region THEN h ELSE o] :
                     h \in AccountSnapshotsHome, o \in AccountSnapshotsOther}
    /\ imgs \in {[r \in Regions |-> IF r = bucket_region THEN h ELSE o] :
                    h \in AccountImagesHome, o \in AccountImagesOther}
    \* the root device snapshot of a registered image exists in the image's region
    /\ \A r \in Regions : \A i \in DOMAIN imgs[r] : imgs[r][i].SnapshotId \in DOMAIN snaps[r]
    /\ ProcInit

NextAccount ==
    \/ runs[1] < MaxAccountRuns /\ Start(1, "Image_create", "Snapshot_create")
    \/ EC2Step(1)
    \/ Crash(1)
    \/ Provider

SpecAccount == InitAccount /\ [][NextAccount]_vars

\* ---------------------------------- Image.create under the image configurations
\* billing_products: unset, empty, one code, two codes in either order
BillingProducts ==
    {[given |-> FALSE, codes |-> <<>>], [given |-> TRUE, codes |-> <<>>],
     [given |-> TRUE, codes |-> <<"bp-1">>], [given |-> TRUE, codes |-> <<"bp-1", "bp-2">>],
     [given |-> TRUE, codes |-> <<"bp-2", "bp-1">>]}

\* regions: unset, all of the partition, one of them, one outside the partition, a mix,
\* one region listed twice
ConfiguredRegions ==
    {<<>>, <<"r1", "r2">>, <<"r2">>, <<"r9">>, <<"r2", "r9">>, <<"r2", "r2">>}

ConfInputs ==
    {[DefaultConf EXCEPT !.name = n, !.separate_snapshot = sep, !.billing_products = bp,
                         !.regions = rs, !.share = << <<"aws", "111111111111">> >>] :
        n \in {"img", "img-2"}, sep \in BOOLEAN, bp \in BillingProducts,
        rs \in ConfiguredRegions}

InitConf ==
    /\ file = [i \in 1..MaxFileLen |-> i]
    /\ bucketExists = TRUE
    /\ object = [ChecksumSHA256 |-> multipart_sha256sum(file), TagSet |-> ctx_tags(file)]
    /\ uploads = <<>>
    /\ nextUploadId = 1
    /\ conf \in ConfInputs
    /\ tasks = <<>>
    /\ snaps = [r \in Regions |-> <<>>]
    /\ imgs = [r \in Regions |-> <<>>]
    /\ ProcInit

NextConf ==
    \/ runs[1] < MaxAccountRuns /\ Start(1, "Image_create", "Snapshot_create")
    \/ EC2Step(1)
    \/ Provider

SpecConf == InitConf /\ [][NextConf]_vars

\* ------------------------------------------ Image.create under the share lists
\* share entries the configuration accepts (configmodels.py:191-214), as their
\* colon-separated fields: an account id, account ids with a partition prefix, ARNs
ShareEntries ==
    [plain |-> <<"111111111111">>,
     aws |-> <<"aws", "111111111111">>,
     cn |-> <<"aws-cn", "222222222222">>,
     gov |-> <<"aws-us-gov", "333333333333">>,
     arn |-> <<"arn", "aws", "organizations", "", "123456789012", "organization/o-abcdefghij">>,
     arn_cn |-> <<"arn", "aws-cn", "organizations", "", "123456789012", "organization/o-abcdefghij">>]

ShareInputs ==
    {<<>>, <<ShareEntries.aws, ShareEntries.cn>>, <<ShareEntries.plain>>, <<ShareEntries.cn>>,
     <<ShareEntries.arn, ShareEntries.arn_cn>>,
     <<ShareEntries.cn, ShareEntries.plain, ShareEntries.arn>>,
     <<ShareEntries.gov, ShareEntries.aws>>}

InitShare ==
    /\ file = [i \in 1..MaxFileLen |-> i]
    /\ bucketExists = TRUE
    /\ object = [ChecksumSHA256 |-> multipart_sha256sum(file), TagSet |-> ctx_tags(file)]
    /\ uploads = <<>>
    /\ nextUploadId = 1
    /\ conf \in {[DefaultConf EXCEPT !.share = sh, !.partition = pt] :
                    sh \in ShareInputs, pt \in {"aws", "aws-cn"}}
    /\ tasks = <<>>
    /\ snaps = [r \in Regions |-> <<>>]
    /\ imgs = [r \in Regions |-> <<>>]
    /\ ProcInit

SpecShare == InitShare /\ [][NextConf]_vars

\* Image.create as a process that is scheduled: a run that can take a step takes one.
\* Nothing is assumed of the provider, nor that the process is not killed.
\* The image is shared, which makes the run go through every phase.
InitAccountShared == InitAccount /\ conf.share # <<>>

SpecAccountFair == InitAccountShared /\ [][NextAccount]_vars /\ WF_vars(EC2Step(1))

\* ------------------- the commands create, publish, cleanup, list and verify in turn
\* api.py:60-145 and cli/__init__.py:93, on accounts that are empty or hold images
MaxLifeRuns == 2

\* image configurations: the temporary and public flags, with or without the
\* optional attributes verify compares
LifeConfs ==
    {[DefaultConf EXCEPT !.temporary = t, !.public = pb, !.share = << <<"aws", "111111111111">> >>,
                         !.tpm_support = o, !.imds_support = o,
                         !.billing_products = IF o = None THEN @ ELSE [given |-> TRUE, codes |-> <<"bp-1">>]] :
        t \in BOOLEAN, pb \in BOOLEAN, o \in {None, "v2.0"}}

\* an image as Image.create leaves it
LifeImage == [AccountImage(1) EXCEPT !.Tags = Image_tags(file, conf)]

\* an image of the name made public by hand or by an earlier publish
LifeImagePublic == [LifeImage EXCEPT !.LaunchPermission = {GroupAll}]

\* an image of the name registered by hand with other attributes, its Name tag
\* that of another source file
LifeImageOther ==
    [LifeImage EXCEPT !.State = "pending", !.Tags = [Name |-> source_sha256(<<0>>)] @@ @,
                      !.Attributes = [RootDeviceType |-> "instance-store", BootMode |-> "legacy-bios",
                                      VolumeType |-> "gp2", VolumeSize |-> 10, TpmSupport |-> None,
                                      ImdsSupport |-> None, BillingProducts |-> <<"bp-2">>]]

LifeSnapshot(st) == AccountSnapshot(st, snapshot_tags(file, conf))

\* the images of the regions r1, r2 before the first command
LifeAccounts ==
    {[snaps |-> <<h[1], o[1]>>, imgs |-> <<h[2], o[2]>>] :
        h \in {<< <<>>, <<>> >>,
               << <<LifeSnapshot("completed")>>, <<LifeImage>> >>,
               << <<LifeSnapshot("completed")>>, <<LifeImagePublic>> >>,
               << <<LifeSnapshot("pending")>>, <<LifeImageOther>> >>},
        o \in {<< <<>>, <<>> >>,
               << <<LifeSnapshot("completed")>>, <<LifeImage>> >>,
               << <<LifeSnapshot("completed")>>, <<LifeImagePublic>> >>,
               << <<LifeSnapshot("completed")>>, <<LifeImage, LifeImage>> >>}}

InitLife ==
    /\ file = [i \in 1..MaxFileLen |-> i]
    /\ bucketExists = TRUE
    /\ object = [ChecksumSHA256 |-> multipart_sha256sum(file), TagSet |-> ctx_tags(file)]
    /\ uploads = <<>>
    /\ nextUploadId = 1
    /\ conf \in LifeConfs
    /\ tasks = <<>>
    /\ \E a \in LifeAccounts :
          /\ snaps = [r \in Regions |-> IF r = bucket_region THEN a.snaps[1] ELSE a.snaps[2]]
          /\ imgs = [r \in Regions |-> IF r = bucket_region THEN a.imgs[1] ELSE a.imgs[2]]
    /\ ProcInit

NextLife ==
    \/ runs[1] < MaxLifeRuns /\ Start(1, "Image_create", "Snapshot_create")
    \/ runs[1] < MaxLifeRuns /\ Start(1, "publish", "publish")
    \/ runs[1] < MaxLifeRuns /\ Start(1, "cleanup", "cleanup")
    \/ runs[1] < MaxLifeRuns /\ Start(1, "list", "list")
    \/ runs[1] < MaxLifeRuns /\ Start(1, "verify", "verify")
    \/ EC2Step(1)
    \/ LifecycleStep(1)
    \/ Provider

SpecLife == InitLife /\ [][NextLife]_vars

\* ------------------------------------------------ SNSNotification.publish (sns.py)
MaxSnsRuns == 2

\* sns.py:41-53 with common.py:34-71: the regions of a topic
sns_regions(topic_config) ==
    IF topic_config.regions # <<>>
      THEN SelectSeq(image_regions_all,
                     LAMBDA r : \E i \in DOMAIN topic_config.regions : topic_config.regions[i] = r)
      ELSE image_regions_all

\* sns.py:82-84: the topics and their regions in the order of the three loops
RECURSIVE sns_targets_from(_, _)
sns_targets_from(topics, k) ==
    IF k > Len(topics)
      THEN <<>>
      ELSE LET regions == sns_regions(topics[k])
           IN [i \in DOMAIN regions |-> <<topics[k].name, regions[i]>>]
              \o sns_targets_from(topics, k + 1)

sns_targets(c) == sns_targets_from(c.sns, 1)

\* error codes of a botocore ClientError that sts or sns may answer with
ClientErrorCodes == {"AuthorizationError", "InvalidParameter"}

\* what one snsclient.publish may end with: success, a ClientError of some code, or an
\* exception that is no ClientError
SNSOutcomes == {"ok", "EndpointConnectionError"} \cup ClientErrorCodes

\* variant of the except clause that raises AWSNotificationException for every code
SNS_exception_notification_only(code) == "AWSNotificationException"

\* sns.py:93-101
SNS_exception(code) ==
    IF code = "AuthorizationError" THEN "AWSAuthorizationException" ELSE "AWSNotificationException"

\* sns.py:77-84: publish begins; hist.published lists what the call has sent
SNS_publish(p) ==
    /\ pc[p] = "sns"
    /\ hist' = [hist EXCEPT !.published = <<>>, !.sns_error = None]
    /\ IF sns_targets(conf) = <<>>
         THEN /\ Goto(p, "done")
              /\ loc' = loc
         ELSE /\ Goto(p, "sns_publish")
              /\ loc' = [loc EXCEPT ![p].i = 1]
    /\ UNCHANGED <<s3vars, s3loc, conf, op, runs, last, ec2vars, issued, ret, err>>

\* sns.py:85-105: one snsclient.publish and the handling of its failure
SNS_publish_topic(p) ==
    /\ pc[p] = "sns_publish"
    /\ \E o \in SNSOutcomes :
          IF o = "ok"
            THEN /\ hist' = [hist EXCEPT !.published = Append(@, sns_targets(conf)[loc[p].i])]
                 /\ IF loc[p].i + 1 > Len(sns_targets(conf))
                      THEN /\ Goto(p, "done")
                           /\ loc' = [loc EXCEPT ![p] = LocInit]
                      ELSE /\ Goto(p, "sns_publish")
                           /\ loc' = [loc EXCEPT ![p].i = @ + 1]
                 /\ UNCHANGED <<err, s3loc>>
            ELSE /\ hist' = [hist EXCEPT !.sns_error = o]
                 /\ Raise(p, IF o \in ClientErrorCodes THEN SNS_exception(o) ELSE o)
    /\ UNCHANGED <<s3vars, conf, op, runs, last, ec2vars, issued, ret>>

\* configmodels.py:104-119 and 187: no topic, one topic for all regions, two topics
\* with their own regions
SnsConfs ==
    {[DefaultConf EXCEPT !.sns = t] :
        t \in {<<>>,
               << [name |-> "t1", regions |-> <<>>] >>,
               << [name |-> "t1", regions |-> <<"r2">>], [name |-> "t2", regions |-> <<"r1", "r2">>] >>,
               << [name |-> "t1", regions |-> <<"r9">>], [name |-> "t2", regions |-> <<"r2", "r1">>] >>}}

InitSNS ==
    /\ file = [i \in 1..MaxFileLen |-> i]
    /\ bucketExists = TRUE
    /\ object = [ChecksumSHA256 |-> multipart_sha256sum(file), TagSet |-> ctx_tags(file)]
    /\ uploads = <<>>
    /\ nextUploadId = 1
    /\ conf \in SnsConfs
    /\ tasks = <<>>
    /\ snaps = [r \in Regions |-> <<>>]
    /\ imgs = [r \in Regions |-> <<>>]
    /\ ProcInit

NextSNS ==
    \/ runs[1] < MaxSnsRuns /\ Start(1, "sns_publish", "sns")
    \/ SNS_publish(1)
    \/ SNS_publish_topic(1)

SpecSNS == InitSNS /\ [][NextSNS]_vars

\* ===================================================================== claims
\* a step of process p's own code that is not a kill
Stepped(p, label) == pc[p] = label /\ pc'[p] # label /\ err'[p] # "crash"

ObjectMatches == object # NoObject /\ object.ChecksumSHA256 = multipart_sha256sum(file)

\* snapshots of region r in status pending or completed that carry Name = identity
TaggedSnapshots(r) ==
    {i \in DOMAIN snaps[r] : /\ "Name" \in DOMAIN snaps[r][i].Tags
                             /\ snaps[r][i].Tags["Name"] = snapshot_name(file, conf)
                             /\ snaps[r][i].Status \in {"pending", "completed"}}

\* import tasks tagged Name = identity whose status is outside {deleted, completed}
InFlightTasks ==
    {t \in DOMAIN tasks : /\ "Name" \in DOMAIN tasks[t].Tags
                          /\ tasks[t].Tags["Name"] = snapshot_name(file, conf)
                          /\ tasks[t].Status \notin {"deleted", "completed"}}

\* images of region r registered under the image name and not deregistered
NamedImages(r) == {i \in DOMAIN imgs[r] : imgs[r][i].Name = image_name /\ ~imgs[r][i].Deregistered}

\* ------------------------------------------------------------------ S3 claims
\* C2: upload_file returns without create_multipart_upload, upload_part,
\* complete_multipart_upload or put_object_tagging exactly when an object exists at the
\* key with the locally computed multipart checksum; hence the run after a run that
\* returned uploads no part.
C2_ReturnsEarlyIffObjectMatches ==
    /\ [][\A p \in Procs : Stepped(p, "head_object") =>
             ((pc'[p] \notin {"get_multipart_upload_id", "failed"} /\ issued'[p] = NoCalls)
                <=> ObjectMatches)]_vars
    /\ [](\A p \in Procs : op[p] = "upload_file" /\ last[p].done => issued[p]["upload_part"] = 0)

\* the part numbers 1..upto of the file whose stored part is absent from the listing or
\* differs from the local chunk's checksum
PartsToSend(parts_available, upto) ==
    {n \in 1..upto : \/ n \notin DOMAIN parts_available
                     \/ parts_available[n].ChecksumSHA256 # B64(Sha256(Chunk(file, n)))}

\* C3: whatever parts the chosen multipart upload holds, _upload_file_multipart sends
\* upload_part for exactly the part numbers 1..N that are absent or mismatched, takes
\* over every other part as stored, and the upload is completed into an object whose
\* checksum is the one computed from the full file.
C3_UploadsExactlyMissingParts ==
    \A p \in Procs :
        LET l == s3loc[p]
            handled == l.part_number - 1
        IN /\ pc[p] \in {"upload_part", "complete_multipart_upload"} =>
                /\ l.sent = PartsToSend(l.parts_available, handled)
                /\ DOMAIN l.parts = 1..handled
                /\ \A n \in (1..handled) \ l.sent :
                      /\ l.parts[n].ETag = l.parts_available[n].ETag
                      /\ l.parts[n].ChecksumSHA256 = l.parts_available[n].ChecksumSHA256
                      /\ UploadWithId(l.upload_id).Parts[n] = l.parts_available[n]
           /\ pc[p] = "complete_multipart_upload" =>
                /\ handled = NumChunks(file)
                /\ issued[p]["upload_part"] = Cardinality(l.sent)
                /\ CompleteAccepted(UploadWithId(l.upload_id), PartsList(l.parts),
                                    multipart_sha256sum(file))
           /\ pc[p] = "put_object_tagging" =>
                /\ object # NoObject
                /\ object.ChecksumSHA256 = multipart_sha256sum(file)
                /\ issued[p]["complete_multipart_upload"] = 1

\* a run reached completion having sent one part anew over a mismatched stored part and
\* reused another
C3_Witness ==
    \E p \in Procs :
        /\ pc[p] = "complete_multipart_upload"
        /\ \E n \in s3loc[p].sent : n \in DOMAIN s3loc[p].parts_available
        /\ \E n \in DOMAIN s3loc[p].parts : n \notin s3loc[p].sent

\* C4: while every run of upload_file so far was interrupted, no part number has been
\* sent with upload_part twice and at most one multipart upload has been created: the
\* retry goes on with the upload in progress.
C4_NoPartUploadedTwice ==
    \A p \in Procs :
        op[p] = "upload_file" /\ last[p].returned = 0 =>
            /\ \A n \in DOMAIN hist.uploaded : hist.uploaded[n] <= 1
            /\ hist.created <= 1

\* ---------------------------------------------------------------- EC2 claims
\* C1: a run of api.create that follows a run that returned issues no upload_part, no
\* import_snapshot, no copy_snapshot and no register_image, and returns the same image
\* id per region.
C1_SecondRunCreatesNothing ==
    \A p \in Procs :
        op[p] = "create" /\ last[p].done =>
            /\ issued[p]["upload_part"] = 0
            /\ issued[p]["import_snapshot"] = 0
            /\ issued[p]["copy_snapshot"] = 0
            /\ issued[p]["register_image"] = 0
            /\ pc[p] = "done" => ret[p].images = last[p].ret.images

\* C5: with exactly one pending or completed snapshot tagged Name = identity in the
\* bucket region, Snapshot.create returns that snapshot's id, having issued no
\* import_snapshot, no create_tags and no waiter call, and changes nothing.
C5_ExistingSnapshotIsReturned ==
    [][\A p \in Procs :
          Stepped(p, "Snapshot_create") /\ Cardinality(TaggedSnapshots(bucket_region)) = 1 =>
              /\ pc'[p] = "done"
              /\ ret'[p].snapshot_id \in TaggedSnapshots(bucket_region)
              /\ issued'[p] = NoCalls
              /\ UNCHANGED <<tasks, snaps, imgs>>]_vars

\* a run returned a snapshot that was still pending without issuing a call
C5_Witness ==
    \E p \in Procs :
        /\ op[p] = "Snapshot_create" /\ pc[p] = "done" /\ issued[p] = NoCalls
        /\ ret[p].snapshot_id \in TaggedSnapshots(bucket_region)
        /\ snaps[bucket_region][ret[p].snapshot_id].Status = "pending"

\* C6: with no pending or completed snapshot tagged with the identity, Snapshot.create
\* goes on to import_snapshot exactly when no tagged import task is in a status other
\* than deleted or completed, and it issues import_snapshot in no other situation; with
\* exactly one such task it waits on that task and starts no import.
C6_ImportIffNoTaskInFlight ==
    [][\A p \in Procs :
          /\ Stepped(p, "get_import_snapshot_task") /\ TaggedSnapshots(bucket_region) = {} =>
                /\ (pc'[p] = "import_snapshot") <=> (InFlightTasks = {})
                /\ Cardinality(InFlightTasks) = 1 =>
                      /\ pc'[p] = "waiter_import"
                      /\ loc'[p].import_snapshot_task_id \in InFlightTasks
                /\ UNCHANGED <<tasks, issued>>
          /\ issued'[p]["import_snapshot"] > issued[p]["import_snapshot"] =>
                /\ pc[p] = "import_snapshot"
                /\ InFlightTasks = {}
                /\ TaggedSnapshots(bucket_region) = {}
                /\ Len(tasks') = Len(tasks) + 1
          /\ Stepped(p, "waiter_import") => tasks' = tasks]_vars

\* a run waits on the task an earlier run started and has started none itself
C6_Witness ==
    \E p \in Procs :
        /\ pc[p] = "waiter_import" /\ issued[p]["import_snapshot"] = 0
        /\ loc[p].import_snapshot_task_id \in InFlightTasks
        /\ Len(tasks) = 1

\* C7: over all runs, import_snapshot is issued at most once (an import whose task the
\* provider deleted is not counted), so at most one snapshot is imported for the identity.
C7_ImportedAtMostOnce ==
    /\ Cardinality({t \in DOMAIN tasks : tasks[t].Status # "deleted"}) <= 1
    /\ Len(snaps[bucket_region]) <= 1

\* C8: every region holds at most one pending or completed snapshot tagged
\* Name = identity.
C8_OneTaggedSnapshotPerRegion ==
    \A r \in Regions : Cardinality(TaggedSnapshots(r)) <= 1

\* after an interrupted run and a second import, both regions hold their one tagged
\* snapshot
C8_Witness ==
    /\ runs[1] >= 2
    /\ Len(snaps[bucket_region]) >= 2
    /\ \A r \in Regions : Cardinality(TaggedSnapshots(r)) = 1

\* C9: register_image is issued at most once per region for the image name; a lookup
\* that finds the image leads to no register_image and no create_tags for that region
\* and records the image found; register_image is issued only where no image of that
\* name exists, tags are put only on the image the run has just registered; every run
\* that returns, returns the ids of the images that exist, the same as the run before.
C9_ImageRegisteredOnce ==
    /\ [](\A r \in Regions : Len(imgs[r]) <= 1)
    /\ [](\A p \in Procs : op[p] = "create" /\ pc[p] = "done" =>
             /\ \A r \in DOMAIN ret[p].images : ret[p].images[r] \in NamedImages(r)
             /\ last[p].done => ret[p].images = last[p].ret.images)
    /\ [][\A p \in Procs :
             /\ Stepped(p, "Image_get") /\ NamedImages(regions_of[loc[p].i]) # {} =>
                   /\ pc'[p] \notin {"register_image", "create_tags_image", "failed"}
                   /\ loc'[p].images[regions_of[loc[p].i]].image_id \in NamedImages(regions_of[loc[p].i])
                   /\ UNCHANGED <<imgs, issued>>
             /\ issued'[p]["register_image"] > issued[p]["register_image"] =>
                   /\ pc[p] = "register_image"
                   /\ NamedImages(regions_of[loc[p].i]) = {}
             /\ issued'[p]["create_tags_image"] > issued[p]["create_tags_image"] =>
                   /\ pc[p] = "create_tags_image"
                   /\ issued[p]["register_image"] >= 1
                   /\ \A r \in Regions : \A i \in DOMAIN imgs[r] :
                         imgs'[r][i] # imgs[r][i] => r = regions_of[loc[p].i] /\ i = loc[p].image_id]_vars

\* a second run returned the images of the first without registering any
C9_Witness ==
    /\ op[1] = "create" /\ pc[1] = "done" /\ last[1].done
    /\ issued[1]["register_image"] = 0 /\ issued[1]["create_tags_image"] = 0
    /\ DOMAIN ret[1].images # {}
    /\ ret[1].images = last[1].ret.images

\* C10: once two snapshots tagged with the identity exist in the bucket region there are
\* two for ever, and every Snapshot._get of a run of Snapshot.create then raises
\* MultipleSnapshotsException and changes nothing.
C10_DuplicateSnapshotsRaise ==
    /\ [][Cardinality(TaggedSnapshots(bucket_region)) >= 2 =>
             Cardinality(TaggedSnapshots(bucket_region)') >= 2]_vars
    /\ [][\A p \in Procs :
             Stepped(p, "Snapshot_create") /\ Cardinality(TaggedSnapshots(bucket_region)) >= 2 =>
                 /\ pc'[p] = "failed"
                 /\ err'[p] = "MultipleSnapshotsException"
                 /\ UNCHANGED <<tasks, snaps, imgs, issued>>]_vars

\* both processes imported in their first runs, two tagged snapshots exist, and the
\* next run of one of them was refused
C10_Witness ==
    \E p, q \in Procs :
        /\ p # q
        /\ runs[q] = 1 /\ issued[q]["import_snapshot"] = 1
        /\ runs[p] = 2 /\ err[p] = "MultipleSnapshotsException"
        /\ Len(tasks) = 2
        /\ Cardinality(TaggedSnapshots(bucket_region)) = 2

\* ------------------------------------------------------- claims on lookups
\* the step of p ends its run with exception e, issues no call and changes no resource
Refused(p, e) ==
    /\ pc'[p] = "failed"
    /\ err'[p] = e
    /\ issued'[p] = issued[p]
    /\ UNCHANGED <<tasks, snaps, imgs>>

\* no resource that exists disappears or is marked deleted / deregistered by the step
NothingDeleted ==
    /\ \A t \in DOMAIN tasks :
          t \in DOMAIN tasks' /\ (tasks'[t].Status = "deleted" => tasks[t].Status = "deleted")
    /\ \A r \in Regions :
          /\ \A i \in DOMAIN snaps[r] : i \in DOMAIN snaps'[r]
          /\ \A i \in DOMAIN imgs[r] :
                i \in DOMAIN imgs'[r] /\ imgs'[r][i].Deregistered = imgs[r][i].Deregistered

\* C11: a lookup that finds more than one match (snapshots in Snapshot._get, in-flight
\* tasks in Snapshot._get_import_snapshot_task, images in Image._get) ends the run at
\* once with the Multiple...Exception of its kind; the run issues no call after it, and
\* no step of a run removes a task, a snapshot or an image.
C11_MultipleMatchesRaise ==
    [][\A p \in Procs :
          /\ Stepped(p, "Snapshot_create") /\ Cardinality(TaggedSnapshots(bucket_region)) > 1
                => Refused(p, "MultipleSnapshotsException")
          /\ Stepped(p, "Snapshot_copy") /\ Cardinality(TaggedSnapshots(regions_of[loc[p].i])) > 1
                => Refused(p, "MultipleSnapshotsException")
          /\ Stepped(p, "Snapshot_copy") /\ TaggedSnapshots(regions_of[loc[p].i]) = {}
                                          /\ Cardinality(TaggedSnapshots(bucket_region)) > 1
                => Refused(p, "MultipleSnapshotsException")
          /\ Stepped(p, "get_import_snapshot_task") /\ Cardinality(InFlightTasks) > 1
                => Refused(p, "MultipleImportSnapshotTasksException")
          /\ Stepped(p, "Image_get") /\ Cardinality(NamedImages(regions_of[loc[p].i])) > 1
                => Refused(p, "MultipleImagesException")
          /\ pc[p] = "failed" => issued'[p] = issued[p] \/ runs'[p] > runs[p]
          /\ pc'[p] # pc[p] => NothingDeleted]_vars

\* a run that had registered the image of the first region met two images in the second
C11_Witness ==
    \E p \in Procs :
        /\ pc[p] = "failed" /\ err[p] = "MultipleImagesException"
        /\ issued[p]["register_image"] = 1
        /\ \E r \in Regions : Cardinality(NamedImages(r)) > 1

\* ------------------------------------------------------- claims on Snapshot.copy
\* p takes the step at label: it leaves the label or moves on in its loop
Took(p, label) ==
    /\ pc[p] = label
    /\ (pc'[p] # label \/ loc'[p] # loc[p])
    /\ err'[p] # "crash"

C13_UnexpectedSnapshotKeepsImage ==
    [][\A p \in Procs :
          /\ Took(p, "Image_get") =>
                LET r == regions_of[loc[p].i]
                IN \A x \in NamedImages(r) :
                      NamedImages(r) = {x} /\ imgs[r][x].SnapshotId # loc[p].snapshot_ids[r] =>
                         /\ pc'[p] \in {"Image_get", "image_wait"}
                         /\ err'[p] = err[p]
                         /\ issued'[p] = issued[p]
                         /\ UNCHANGED <<tasks, snaps, imgs>>
                         /\ loc'[p].images[r].image_id = x
          /\ Took(p, "register_image") \/ Took(p, "create_tags_image") =>
                /\ regions_of[loc[p].i] \notin DOMAIN loc[p].images
                /\ pc[p] = "register_image" => NamedImages(regions_of[loc[p].i]) = {}
          /\ pc[p] # "Image_get" =>
                \A r \in DOMAIN loc[p].images :
                    \/ r \in DOMAIN loc'[p].images /\ loc'[p].images[r] = loc[p].images[r]
                    \/ pc'[p] = "failed"
                    \/ pc'[p] = "done" /\ ret'[p].images[r] = loc[p].images[r].image_id]_vars

\* a run has returned, for the bucket region, the only image there, whose root device
\* snapshot does not carry the identity
C13_Witness ==
    \E p \in Procs :
        /\ pc[p] = "done" /\ op[p] = "Image_create"
        /\ bucket_region \in DOMAIN ret[p].images
        /\ Len(imgs[bucket_region]) = 1
        /\ ret[p].images[bucket_region] = 1
        /\ imgs[bucket_region][1].SnapshotId \notin TaggedSnapshots(bucket_region)
        /\ issued[p]["modify_snapshot_attribute"] > 0

\* ------------------------------------------------------- claims on the waits
WaitLabels == {"waiter_import", "waiter_completed", "copy_wait", "image_wait"}

\* the state the wait p is in is waiting for has been reached
Awaited(p) ==
    IF pc[p] = "waiter_import" THEN tasks[loc[p].import_snapshot_task_id].Status = "completed"
    ELSE IF pc[p] = "waiter_completed"
      THEN snaps[bucket_region][loc[p].snapshot_id].Status = "completed"
    ELSE IF pc[p] = "copy_wait"
      THEN LET r == regions_of[loc[p].i]
           IN snaps[r][loc[p].snapshot_ids[r]].Status = "completed"
    ELSE IF pc[p] = "image_wait"
      THEN LET r == regions_of[loc[p].i]
           IN imgs[r][loc[p].images[r].image_id].State = "available"
    ELSE FALSE

\* C14: a wait whose last attempt does not see the awaited state ends the run with
\* WaiterError and changes nothing at the provider; a run that has ended issues no
\* call; so the snapshot is tagged only after the import wait saw the task completed,
\* an image is registered only when every snapshot of the run is completed, and
\* sharing starts only when every image of the run is available.
C14_ExhaustedWaitEndsRun ==
    [][\A p \in Procs :
          /\ pc[p] \in WaitLabels /\ Took(p, pc[p]) /\ ~Awaited(p)
                                  /\ loc[p].attempts + 1 >= MaxAttempts
                => /\ pc'[p] = "failed" /\ err'[p] = "WaiterError"
                   /\ UNCHANGED <<tasks, snaps, imgs>>
                   /\ \A a \in Apis \ {"wait"} : issued'[p][a] = issued[p][a]
          /\ pc[p] \in WaitLabels /\ pc'[p] = "failed" /\ err'[p] = "WaiterError"
                => ~Awaited(p) /\ loc[p].attempts + 1 = MaxAttempts
          /\ pc[p] = "failed" => pc'[p] = "failed" \/ runs'[p] > runs[p]
          /\ pc[p] = "failed" /\ pc'[p] = "failed" => issued'[p] = issued[p]
          /\ Took(p, "create_tags") =>
                tasks[loc[p].import_snapshot_task_id].Status = "completed"
          /\ Took(p, "register_image") =>
                \A r \in DOMAIN loc[p].snapshot_ids :
                    snaps[r][loc[p].snapshot_ids[r]].Status = "completed"
          /\ Took(p, "modify_image_attribute") =>
                \A r \in DOMAIN loc[p].images :
                    imgs[r][loc[p].images[r].image_id].State = "available"]_vars

\* the import wait of a run that had issued import_snapshot ran out of attempts, and the
\* run tagged nothing
C14_Witness ==
    \E p \in Procs :
        /\ pc[p] = "failed" /\ err[p] = "WaiterError"
        /\ issued[p]["import_snapshot"] = 1
        /\ issued[p]["create_tags_snapshot"] = 0
        /\ issued[p]["wait"] = 1

\* C15: every run of Image.create ends, by returning or with an exception, whatever
\* the provider does: each wait makes at most MaxAttempts attempts and each loop runs
\* over the finite list of regions.
C15_ImageCreateTerminates == \A p \in Procs : Running(p) ~> ~Running(p)

\* a run has ended although the provider never completed the import it waited for
C15_Witness ==
    \E p \in Procs :
        /\ pc[p] = "failed" /\ err[p] = "WaiterError"
        /\ \E t \in DOMAIN tasks : tasks[t].Status = "active"
        /\ \A r \in Regions : snaps[r] = <<>>

\* ------------------------------------------------------- claims on the bucket
\* C16: when the bucket is not among the account's buckets, upload_file ends with
\* BucketDoesNotExistException before head_object, create_multipart_upload,
\* upload_part or any other call of the upload, and the read of S3.bucket_region ends
\* with the same exception.
C16_MissingBucketRaisesFirst ==
    [][\A p \in Procs :
          /\ (Took(p, "upload_file") \/ Took(p, "bucket_region")) /\ ~bucketExists
                => /\ pc'[p] = "failed"
                   /\ err'[p] = "BucketDoesNotExistException"
                   /\ issued'[p] = issued[p]
                   /\ UNCHANGED <<object, uploads, nextUploadId>>
          /\ ~bucketExists
                => /\ pc'[p] \in {"idle", "upload_file", "bucket_region", "failed"}
                   /\ issued'[p] = NoCalls
          /\ pc'[p] = "failed" /\ pc[p] # "failed" /\ err'[p] = "BucketDoesNotExistException"
                => ~bucketExists]_vars

\* upload_file has ended with the exception for the missing bucket
C16_Witness ==
    \E p \in Procs :
        /\ pc[p] = "failed" /\ err[p] = "BucketDoesNotExistException"
        /\ op[p] = "upload_file"
        /\ ~bucketExists

\* C17: an error of the provider during upload_file, such as an authorization or a
\* transport error of head_object, ends upload_file with that error: upload_file never
\* goes on to the upload after head_object answered with an error other than the one
\* for a missing key.
C17_HeadErrorPropagates ==
    [][\A p \in Procs :
          pc[p] = "head_object" /\ pc'[p] \notin {"head_object", "failed"}
             => s3loc'[p].head # "error"]_vars

\* ------------------------------------------------------- claims on the configuration
billing_products_of(c) == IF c.billing_products.given THEN c.billing_products.codes ELSE <<>>

SeqRange(q) == {q[i] : i \in DOMAIN q}

\* C18: the snapshot name is the content hash itself when separate_snapshot is false
\* and billing_products is unset or empty; otherwise it is the hash of the text made of
\* the content hash, then the hash of the image name if separate_snapshot is set, then
\* the hash of each billing product in the order listed. It is the Name every import
\* task and every snapshot of the run is tagged with.
C18_SnapshotNameComposition ==
    LET content == source_sha256(file)
        bps == billing_products_of(conf)
        name_hash == IF conf.separate_snapshot THEN <<HexDigestText(<<Lit(conf.name)>>)>> ELSE <<>>
        expected == IF ~conf.separate_snapshot /\ bps = <<>>
                      THEN content
                      ELSE HexDigestText(<<content>> \o name_hash
                                         \o [i \in DOMAIN bps |-> HexDigestText(<<Lit(bps[i])>>)])
    IN /\ name_of = expected
       /\ \A t \in DOMAIN tasks : tasks[t].Tags["Name"] = expected
       /\ \A r \in Regions : \A i \in DOMAIN snaps[r] :
             "Name" \in DOMAIN snaps[r][i].Tags => snaps[r][i].Tags["Name"] = expected

\* a finished run with separate_snapshot and two billing products tagged its snapshot
C18_Witness ==
    /\ pc[1] = "done"
    /\ conf.separate_snapshot /\ Len(billing_products_of(conf)) = 2
    /\ \E i \in DOMAIN snaps[bucket_region] : "Name" \in DOMAIN snaps[bucket_region][i].Tags

\* C19: with the hash taken as injective, the snapshot name differs from the content
\* hash as soon as separate_snapshot is set or a billing product is listed; two images
\* with separate_snapshot and different names get different snapshot names; equal
\* inputs give equal snapshot names; and exchanging two distinct billing products
\* changes the snapshot name.
C19_SnapshotNameSeparates ==
    LET bps == billing_products_of(conf)
        SameInputs(c) == /\ c.separate_snapshot = conf.separate_snapshot
                         /\ (conf.separate_snapshot => c.name = conf.name)
                         /\ billing_products_of(c) = bps
        Exchanged(c) == /\ Len(bps) = 2
                        /\ bps[1] # bps[2]
                        /\ billing_products_of(c) = <<bps[2], bps[1]>>
                        /\ c.separate_snapshot = conf.separate_snapshot
                        /\ c.name = conf.name
        BothSeparate(c) == conf.separate_snapshot /\ c.separate_snapshot /\ c.name # conf.name
    IN /\ (conf.separate_snapshot \/ bps # <<>>) => name_of # source_sha256(file)
       /\ \A c \in ConfInputs :
             /\ BothSeparate(c) => snapshot_name(file, c) # name_of
             /\ SameInputs(c) => snapshot_name(file, c) = name_of
             /\ Exchanged(c) => snapshot_name(file, c) # name_of

\* a run has imported under a snapshot name that is not the content hash
C19_Witness ==
    /\ conf.separate_snapshot
    /\ \E t \in DOMAIN tasks : tasks[t].Tags["Name"] # source_sha256(file)

\* C20: the regions an image is made in are the configured regions that describe_regions
\* reports when a list is configured, and all reported regions when none is; configured
\* regions the partition does not have are dropped without an exception, even when no
\* region is left: the run then returns an empty map.
C20_WorkingRegions ==
    /\ SeqRange(regions_of) = IF conf.regions # <<>>
                                THEN SeqRange(conf.regions) \cap SeqRange(image_regions_all)
                                ELSE SeqRange(image_regions_all)
    /\ \A i, j \in DOMAIN regions_of : regions_of[i] = regions_of[j] => i = j
    /\ \A r \in Regions \ SeqRange(regions_of) :
          imgs[r] = <<>> /\ (r # bucket_region => snaps[r] = <<>>)
    /\ \A p \in Procs :
          /\ pc[p] = "done" /\ op[p] = "Image_create"
                => DOMAIN ret[p].images = SeqRange(regions_of)
          /\ pc[p] = "failed" => err[p] = "WaiterError"

\* a run configured with a region outside the partition only has returned an empty map
C20_Witness ==
    /\ conf.regions = <<"r9">>
    /\ pc[1] = "done" /\ ret[1].images = NoMap
    /\ Len(snaps[bucket_region]) = 1

\* ------------------------------------------------------- claims on sharing
\* the partition a share entry names: the field before the colon, the partition field
\* of an ARN, or aws
EntryPartition(e) == IF e[1] = "arn" THEN e[2] ELSE IF Len(e) = 2 THEN e[1] ELSE "aws"

\* the entry without its partition prefix; an ARN as it is
EntryId(e) == IF e[1] = "arn" THEN e ELSE IF Len(e) = 2 THEN <<e[2]>> ELSE e

\* C21: _share_list_filtered returns, in their order, exactly the share entries whose
\* partition (the prefix before the colon, the partition field of an ARN, aws when
\* there is neither) is the active partition, account ids without their prefix and
\* ARNs as they are; {aws:111111111111, aws-cn:222222222222} under aws gives the one
\* entry 111111111111. Only these entries are added to a launch permission or a
\* createVolumePermission.
C21_ShareListOfActivePartition ==
    LET kept == SelectSeq(conf.share, LAMBDA e : EntryPartition(e) = conf.partition)
        expected == [i \in DOMAIN kept |-> [UserId |-> EntryId(kept[i])]]
    IN /\ share_list_filtered(conf.share) = expected
       /\ conf.partition = "aws" /\ conf.share = <<ShareEntries.aws, ShareEntries.cn>>
             => share_list_filtered(conf.share) = << [UserId |-> <<"111111111111">>] >>
       /\ \A r \in Regions :
             /\ \A i \in DOMAIN imgs[r] : imgs[r][i].LaunchPermission \subseteq UserIds(expected)
             /\ \A i \in DOMAIN snaps[r] : snaps[r][i].CreateVolumePermission \subseteq UserIds(expected)
       /\ \A p \in Procs :
             pc[p] = "done" =>
                \A r \in DOMAIN ret[p].images :
                    imgs[r][ret[p].images[r]].LaunchPermission = UserIds(expected)

\* a finished run shared its images with the one account of the active partition, of
\* the two listed
C21_Witness ==
    /\ conf.share = <<ShareEntries.aws, ShareEntries.cn>> /\ conf.partition = "aws"
    /\ pc[1] = "done"
    /\ \A r \in Regions :
          Len(imgs[r]) = 1 /\ imgs[r][1].LaunchPermission = {<<"111111111111">>}

\* ------------------------------------------------------- claims on visibility
\* a step that adds the group all to the launch permission of an image or to the
\* createVolumePermission of a snapshot
MadePublic ==
    \/ \E r \in Regions : \E i \in DOMAIN imgs[r] :
          GroupAll \in imgs'[r][i].LaunchPermission /\ GroupAll \notin imgs[r][i].LaunchPermission
    \/ \E r \in Regions : \E i \in DOMAIN snaps[r] :
          /\ GroupAll \in snaps'[r][i].CreateVolumePermission
          /\ GroupAll \notin snaps[r][i].CreateVolumePermission

\* C22: for an image marked temporary, whatever its public flag, no step of create,
\* publish, cleanup, list or verify adds the group all to the launch permission of an
\* image or to the createVolumePermission of a snapshot, and publish returns at once,
\* without a call to the provider and without a change of the provider's state.
C22_TemporaryNeverPublic ==
    [][conf.temporary =>
          /\ ~MadePublic
          /\ \A p \in Procs :
                pc[p] = "publish" /\ pc'[p] # "publish" =>
                    /\ pc'[p] = "done"
                    /\ issued'[p] = NoCalls
                    /\ UNCHANGED ec2vars
          /\ \A p \in Procs : op'[p] = "publish" => issued'[p] = NoCalls]_vars

\* publish has returned for a temporary image flagged public whose images exist
C22_Witness ==
    /\ conf.temporary /\ conf.public
    /\ op[1] = "publish" /\ pc[1] = "done"
    /\ \A r \in Regions : NamedImages(r) # {}

\* C23: when publish returns for an image flagged public and not temporary, in every
\* target region the image of the name has the group all in its launch permission
\* and its root device snapshot has the group all in its createVolumePermission;
\* publish issued one modify_image_attribute and one modify_snapshot_attribute for
\* each region that holds the image.
C23_PublishMakesPublic ==
    \A p \in Procs :
        op[p] = "publish" /\ pc[p] = "done" /\ conf.public /\ ~conf.temporary =>
            LET held == {k \in DOMAIN regions_of : NamedImages(regions_of[k]) # {}}
            IN /\ \A k \in DOMAIN regions_of :
                     \A i \in NamedImages(regions_of[k]) :
                         LET r == regions_of[k]
                         IN /\ GroupAll \in imgs[r][i].LaunchPermission
                            /\ GroupAll \in snaps[r][imgs[r][i].SnapshotId].CreateVolumePermission
               /\ issued[p]["modify_image_attribute"] = Cardinality(held)
               /\ issued[p]["modify_snapshot_attribute"] = Cardinality(held)

\* publish returned after it made the images of both regions and their snapshots public
C23_Witness ==
    /\ op[1] = "publish" /\ pc[1] = "done" /\ conf.public /\ ~conf.temporary
    /\ issued[1]["modify_image_attribute"] = 2 /\ issued[1]["modify_snapshot_attribute"] = 2
    /\ \A r \in Regions : NamedImages(r) # {} /\ \A i \in NamedImages(r) : Public(imgs[r][i])

\* ------------------------------------------------------- claims on cleanup
\* a step that deregisters image i of region r
Deregisters(r, i) == imgs'[r][i].Deregistered /\ ~imgs[r][i].Deregistered

\* C24: an image is deregistered only by cleanup, only when the image is marked
\* temporary and only when the live image is not public; cleanup of an image not marked
\* temporary returns without a call; when the live image of a temporary image is public
\* cleanup does not raise and goes on with the next region, or returns after the last.
C24_CleanupKeepsPublicAndPermanent ==
    [][/\ \A r \in Regions : \A i \in DOMAIN imgs[r] :
             Deregisters(r, i) =>
                /\ conf.temporary
                /\ ~Public(imgs[r][i])
                /\ \E p \in Procs : op[p] = "cleanup" /\ pc[p] = "deregister_image"
       /\ \A p \in Procs :
             /\ pc[p] = "cleanup" /\ pc'[p] # "cleanup" /\ ~conf.temporary =>
                   pc'[p] = "done" /\ issued'[p] = NoCalls /\ UNCHANGED ec2vars
             /\ op[p] = "cleanup" /\ ~conf.temporary => issued'[p]["deregister_image"] = 0
             /\ pc[p] = "cleanup_describe" /\ pc'[p] # "cleanup_describe"
                   /\ Public(imgs[regions_of[loc[p].i]][loc[p].images[regions_of[loc[p].i]].image_id]) =>
                      /\ err'[p] = None
                      /\ UNCHANGED <<ec2vars, issued>>
                      /\ IF loc[p].i < Len(regions_of)
                           THEN pc'[p] = "cleanup_get" /\ loc'[p].i = loc[p].i + 1
                           ELSE pc'[p] = "done"]_vars

\* cleanup of a temporary image returned: it kept the public image of the first region
\* and deregistered the image of the second
C24_Witness ==
    /\ conf.temporary /\ op[1] = "cleanup" /\ pc[1] = "done"
    /\ regions_of = <<"r1", "r2">>
    /\ Len(imgs["r1"]) = 1 /\ Public(imgs["r1"][1]) /\ ~imgs["r1"][1].Deregistered
    /\ Len(imgs["r2"]) = 1 /\ imgs["r2"][1].Deregistered
    /\ issued[1]["deregister_image"] = 1

\* ------------------------------------------------------- claims on list and verify
\* C25: no step of Image.list or Image.verify changes an import task, a snapshot or an
\* image of the provider, and neither issues import_snapshot, copy_snapshot,
\* register_image, create_tags, modify_image_attribute, modify_snapshot_attribute or
\* deregister_image: they only describe.
C25_ListAndVerifyOnlyDescribe ==
    [][\A p \in Procs :
          op'[p] \in {"list", "verify"} =>
             /\ issued'[p] = NoCalls
             /\ op[p] = op'[p] /\ (pc'[p] # pc[p] \/ loc'[p] # loc[p]) => UNCHANGED ec2vars]_vars

\* list returned the images of both regions, then verify returned its findings for both
\* regions, and the images are as they were
C25_Witness ==
    /\ op[1] = "verify" /\ pc[1] = "done" /\ DOMAIN ret[1].problems = Regions
    /\ last[1].done /\ DOMAIN last[1].ret.images = Regions /\ last[1].ret.problems = NoMap
    /\ \A r \in Regions : Len(imgs[r]) = 1 /\ imgs[r][1] = LifeImage

\* the list Image._verify returned for the region of the step just taken
VerifyReturned(p) ==
    LET r == regions_of[loc[p].i]
    IN IF pc'[p] = "done" THEN ret'[p].problems[r] ELSE loc'[p].problems[r]

\* a step in which Image._verify ends, by a return or by an exception
VerifyEnds(p) ==
    /\ op[p] = "verify" /\ pc[p] \in {"verify_get", "verify_describe"}
    /\ pc'[p] \in {"verify_get", "done", "failed"}
    /\ pc'[p] # pc[p] \/ loc'[p] # loc[p]

\* what Image._verify has to return for the live images of region r: NOT_EXIST alone
\* when there is none, nothing when the image is what create registers and its root
\* device snapshot is completed
VerifyFindsAsLive(p, r) ==
    /\ NamedImages(r) = {} => VerifyReturned(p) = <<"NOT_EXIST">>
    /\ \A i \in NamedImages(r) :
          /\ imgs[r][i].State = "available"
          /\ imgs[r][i].Attributes = RegisteredAttributes(conf)
          /\ snaps[r][imgs[r][i].SnapshotId].Status = "completed"
          /\ imgs[r][i].Tags = Image_tags(file, conf)
          => VerifyReturned(p) = <<>>

\* C26: whatever the images of a region are (none, one that is not available, one whose
\* attributes differ, several of the name), Image._verify returns a list of
\* ImageVerificationErrors and does not raise: NOT_EXIST alone for a region without
\* the image and the empty list for a region whose image matches the configuration.
C26_VerifyReturnsProblems ==
    [][\A p \in Procs :
          VerifyEnds(p) =>
             /\ pc'[p] # "failed"
             /\ VerifyFindsAsLive(p, regions_of[loc[p].i])]_vars

\* the part of C26 that holds: an Image._verify that returns, returns NOT_EXIST alone
\* for a region without the image and nothing for an image that matches
C26_ReturnedProblemsAreRight ==
    [][\A p \in Procs :
          VerifyEnds(p) /\ pc'[p] # "failed" => VerifyFindsAsLive(p, regions_of[loc[p].i])]_vars

\* Image._verify raises only for several images of the name in the region
C26_RaisesForDuplicatesOnly ==
    [][\A p \in Procs :
          VerifyEnds(p) /\ pc'[p] = "failed" =>
             /\ err'[p] = "MultipleImagesException"
             /\ Cardinality(NamedImages(regions_of[loc[p].i])) > 1]_vars

\* ------------------------------------------------------- claims on a whole run
\* C27: for an image definition without modifiers and without share list, with two
\* target regions and nothing in the account, the identity of the snapshot is the
\* content hash of the source, and the first run of create, once it returns, has
\* issued exactly one import_snapshot, one copy_snapshot, two register_image and no
\* sharing call, has awaited the import, the snapshot of each region and the
\* availability of exactly two images, and returns one available image per region.
C27_FirstRunCallCounts ==
    \A p \in Procs :
        /\ op[p] = "create" /\ runs[p] = 1 /\ pc[p] = "done"
        /\ conf.share = <<>> /\ regions_of = <<"r1", "r2">>
        /\ ~conf.separate_snapshot /\ ~conf.billing_products.given
        => /\ name_of = source_sha256(file)
           /\ issued[p]["import_snapshot"] = 1
           /\ issued[p]["copy_snapshot"] = 1
           /\ issued[p]["register_image"] = 2
           /\ issued[p]["modify_image_attribute"] = 0
           /\ issued[p]["modify_snapshot_attribute"] = 0
           /\ issued[p]["wait"] = 2 + 2 + 2
           /\ DOMAIN ret[p].images = {"r1", "r2"}
           /\ \A r \in Regions :
                 /\ NamedImages(r) = {ret[p].images[r]}
                 /\ imgs[r][ret[p].images[r]].State = "available"
                 /\ Cardinality(TaggedSnapshots(r)) = 1

\* the first run of create returned for two regions and no share list
C27_Witness ==
    /\ op[1] = "create" /\ runs[1] = 1 /\ pc[1] = "done"
    /\ conf.share = <<>> /\ regions_of = <<"r1", "r2">>
    /\ issued[1]["register_image"] = 2 /\ issued[1]["import_snapshot"] = 1

\* ------------------------------------------------------- claims on tags after a retry
\* C28: whenever S3.upload_file has returned, also in a run that follows runs that
\* were killed, the object at the key of the source's SHA-256 exists with the
\* checksum of the whole file and carries the common resource tag set.
C28_UploadedObjectIsTagged ==
    \A p \in Procs :
        op[p] = "upload_file" /\ pc[p] = "done" =>
            /\ ObjectMatches
            /\ object.TagSet = ctx_tags(file)

\* C29: whenever create has returned, also in a run that follows runs that were killed,
\* every image registered under the image name (in an account that was empty, all of
\* them were registered by the program) carries the image tag set: the common tags
\* overridden by the tags of the image.
C29_RegisteredImagesAreTagged ==
    \A p \in Procs :
        op[p] = "create" /\ pc[p] = "done" =>
            \A r \in Regions : \A i \in NamedImages(r) :
                imgs[r][i].Tags = Image_tags(file, conf)

\* ------------------------------------------------------- claims on notifications
\* C30: when a publish of the fan-out fails with a ClientError, SNSNotification.publish
\* raises AWSAuthorizationException for the code AuthorizationError and
\* AWSNotificationException for any other code; the first failure ends the call: what
\* was sent before it is a proper prefix of the topics and regions to notify, and no
\* later topic or region is notified in that call.
C30_FirstFailureAbortsFanOut ==
    [][\A p \in Procs :
          /\ pc[p] = "sns_publish" /\ pc'[p] = "failed" =>
                /\ hist'.sns_error = "AuthorizationError" => err'[p] = "AWSAuthorizationException"
                /\ hist'.sns_error \in ClientErrorCodes \ {"AuthorizationError"} =>
                      err'[p] = "AWSNotificationException"
                /\ hist'.published = hist.published
                /\ Len(hist.published) < Len(sns_targets(conf))
                /\ hist.published = SubSeq(sns_targets(conf), 1, Len(hist.published))
          /\ op[p] = "sns_publish" /\ pc[p] = "failed" /\ pc'[p] = "failed" =>
                hist'.published = hist.published
          /\ op[p] = "sns_publish" /\ pc[p] = "failed" => pc'[p] \in {"failed", "sns"}]_vars

\* the second publish of three failed for want of permission and the call ended there
C30_Witness ==
    /\ op[1] = "sns_publish" /\ pc[1] = "failed" /\ err[1] = "AWSAuthorizationException"
    /\ hist.sns_error = "AuthorizationError"
    /\ Len(sns_targets(conf)) = 3 /\ hist.published = << <<"t1", "r2">> >>

\* ------------------------------------------------------- claims on the order of calls
\* C31: whenever Snapshot.copy issues copy_snapshot, in a first run or in a run that
\* follows a run killed during Snapshot.create, the snapshot of the source region it
\* copies from is in status completed.
C31_CopySourceIsCompleted ==
    [][\A p \in Procs :
          Stepped(p, "copy_snapshot") =>
              snaps[bucket_region][loc[p].source_snapshot_id].Status = "completed"]_vars

\* the part of C31 that holds: a first run copies from a completed snapshot
C31_FirstRunCopiesCompleted ==
    [][\A p \in Procs :
          Stepped(p, "copy_snapshot") /\ runs[p] = 1 =>
              snaps[bucket_region][loc[p].source_snapshot_id].Status = "completed"]_vars

\* the labels of the first phase of Snapshot.copy: lookup and copy_snapshot per region
CopyLabels == {"Snapshot_copy", "copy_snapshot"}

C33_RegisterAfterSnapshotsCompleted ==
    [][\A p \in Procs :
          /\ pc[p] = "copy_wait" /\ pc'[p] = "Image_get" =>
                /\ DOMAIN loc'[p].snapshot_ids = SeqRange(regions_of)
                /\ \A r \in DOMAIN loc'[p].snapshot_ids :
                      snaps[r][loc'[p].snapshot_ids[r]].Status = "completed"
          /\ Stepped(p, "register_image") =>
                LET r == regions_of[loc[p].i]
                IN /\ snaps[r][loc[p].snapshot_ids[r]].Status = "completed"
                   /\ imgs'[r][Len(imgs'[r])].SnapshotId = loc[p].snapshot_ids[r]]_vars

\* an image is about to be registered on a snapshot that was copied in this run, the
\* snapshot of the bucket region having been in the account before
C33_Witness ==
    /\ pc[1] = "register_image" /\ regions_of[loc[1].i] = "r2"
    /\ issued[1]["copy_snapshot"] = 1 /\ issued[1]["import_snapshot"] = 0
    /\ snaps["r2"][loc[1].snapshot_ids["r2"]].Status = "completed"

\* C34: in Snapshot.create the create_tags call for the imported snapshot is issued
\* when the import task has completed and its wait has returned, and before the
\* snapshot_completed wait starts: during that wait the snapshot carries Name =
\* identity and the common tags, and when the wait runs out the snapshot is the one
\* snapshot of the bucket region found by Name.
C34_TaggedBeforeCompletionWait ==
    [][\A p \in Procs :
          /\ Stepped(p, "create_tags") =>
                /\ tasks[loc[p].import_snapshot_task_id].Status = "completed"
                /\ loc[p].snapshot_id = tasks[loc[p].import_snapshot_task_id].SnapshotId
                /\ issued[p]["wait"] = 1 /\ loc[p].attempts = 0
                /\ pc'[p] = "waiter_completed"
          /\ pc'[p] = "waiter_completed" =>
                snaps'[bucket_region][loc'[p].snapshot_id].Tags = snapshot_tags(file, conf)
          /\ pc[p] = "waiter_completed" /\ err'[p] = "WaiterError" =>
                loc[p].snapshot_id \in TaggedSnapshots(bucket_region)]_vars

\* the snapshot_completed wait of Snapshot.create ran out on a snapshot that is tagged
\* and still pending
C34_Witness ==
    /\ pc[1] = "failed" /\ err[1] = "WaiterError"
    /\ issued[1]["create_tags_snapshot"] = 1 /\ issued[1]["wait"] = 2
    /\ \E i \in TaggedSnapshots(bucket_region) : snaps[bucket_region][i].Status = "pending"

\* the images of the result map of p, after the step, exist and are available
ImagesReady(p) ==
    \A r \in DOMAIN loc'[p].images :
        LET image == imgs[r][loc'[p].images[r].image_id]
        IN ~image.Deregistered /\ image.State = "available"

\* C35: Image.create starts the image waits only when every target region has been
\* looked up or registered, registers nothing once the waits have begun, waits for
\* every image of its result map, registered in this run or found, and issues
\* modify_image_attribute and modify_snapshot_attribute only when all of these waits
\* have succeeded.
C35_WaitsBetweenRegisterAndShare ==
    [][\A p \in Procs :
          /\ pc'[p] = "image_wait" /\ pc[p] # "image_wait" =>
                /\ pc[p] \in {"Image_get", "create_tags_image"}
                /\ DOMAIN loc'[p].images = SeqRange(regions_of)
                /\ issued'[p]["modify_image_attribute"] = 0
          /\ pc[p] \in {"image_wait", "share", "modify_image_attribute", "modify_snapshot_attribute"} =>
                issued'[p]["register_image"] = issued[p]["register_image"]
          /\ pc[p] = "image_wait" /\ pc'[p] = "share" =>
                /\ ImagesReady(p)
                /\ issued'[p]["modify_image_attribute"] = 0
                /\ issued'[p]["modify_snapshot_attribute"] = 0
          /\ pc'[p] \in {"modify_image_attribute", "modify_snapshot_attribute"} =>
                /\ pc[p] \in {"share", "modify_image_attribute", "modify_snapshot_attribute"}
                /\ ImagesReady(p)]_vars

\* sharing begins: the image of the first region was in the account, that of the second
\* was registered in this run, and both are available
C35_Witness ==
    /\ pc[1] = "modify_image_attribute" /\ loc[1].i = 1
    /\ DOMAIN loc[1].images = {"r1", "r2"}
    /\ issued[1]["register_image"] = 1 /\ issued[1]["modify_image_attribute"] = 0
    /\ \A r \in Regions : imgs[r][loc[1].images[r].image_id].State = "available"

\* the step of api.create a label belongs to: upload_file, Snapshot.create,
\* Snapshot.copy, lookup and registration of the images, image waits, sharing, return
Phase(label) ==
    IF label \in {"upload_file", "head_object", "get_multipart_upload_id", "list_parts",
                  "upload_part", "complete_multipart_upload", "put_object_tagging"} THEN 1
    ELSE IF label \in {"Snapshot_create", "get_import_snapshot_task", "import_snapshot",
                       "waiter_import", "create_tags", "waiter_completed"} THEN 2
    ELSE IF label \in {"Snapshot_copy", "copy_snapshot", "copy_wait"} THEN 3
    ELSE IF label \in {"Image_get", "register_image", "create_tags_image"} THEN 4
    ELSE IF label = "image_wait" THEN 5
    ELSE IF label \in {"share", "modify_image_attribute", "modify_snapshot_attribute"} THEN 6
    ELSE IF label = "done" THEN 7
    ELSE 0

\* C36: in api.create the steps of a run follow one another in the order upload_file,
\* Snapshot.create in the bucket region, Snapshot.copy, lookup or registration of the
\* image per region, image waits, sharing: no call to EC2 is issued while upload_file
\* runs, Snapshot.create begins when upload_file has returned with the object in the
\* bucket, no step is skipped or taken again, and a run that failed issues nothing more.
C36_StepsInOrder ==
    [][\A p \in Procs :
          op[p] = "create" /\ op'[p] = "create" =>
             /\ Phase(pc[p]) = 1 =>
                   \A a \in {"import_snapshot", "create_tags_snapshot", "copy_snapshot",
                             "register_image", "create_tags_image", "wait",
                             "modify_image_attribute", "modify_snapshot_attribute"} :
                       issued[p][a] = 0
             /\ Phase(pc[p]) = 1 /\ Phase(pc'[p]) = 2 =>
                   ObjectMatches /\ pc[p] \in {"head_object", "put_object_tagging"}
             /\ Phase(pc[p]) > 0 /\ Phase(pc'[p]) > 0 /\ runs'[p] = runs[p] =>
                   Phase(pc[p]) <= Phase(pc'[p]) /\ Phase(pc'[p]) <= Phase(pc[p]) + 1
             /\ pc[p] = "failed" =>
                   /\ pc'[p] \in {"failed", "upload_file"}
                   /\ pc'[p] = "failed" => issued'[p] = issued[p]]_vars

\* a run of create went through every step, the sharing included, and returned
C36_Witness ==
    /\ op[1] = "create" /\ pc[1] = "done"
    /\ issued[1]["upload_part"] > 0 /\ issued[1]["import_snapshot"] = 1
    /\ issued[1]["copy_snapshot"] = 1 /\ issued[1]["register_image"] = 2
    /\ issued[1]["modify_image_attribute"] = 2

\* ------------------------------------------------------- claims on the multipart upload
\* the positions, in the bucket's listing, of the in-progress uploads of the source's key
UploadsOfKey == {i \in DOMAIN uploads : uploads[i].Key = source_sha256(file)}

\* C37: _get_multipart_upload_id calls create_multipart_upload exactly when the bucket
\* lists no in-progress multipart upload whose key is the source's SHA-256, uploads of
\* other keys not counting; the upload it creates has that key. With one or more such
\* uploads it takes the first one listed, creates none and does not raise.
C37_CreateUploadIffNoneForKey ==
    [][\A p \in Procs :
          Stepped(p, "get_multipart_upload_id") =>
              /\ pc'[p] = "list_parts"
              /\ issued'[p]["create_multipart_upload"] = issued[p]["create_multipart_upload"] + 1
                    <=> UploadsOfKey = {}
              /\ UploadsOfKey = {} =>
                    /\ uploads' = Append(uploads, uploads'[Len(uploads')])
                    /\ uploads'[Len(uploads')].Key = source_sha256(file)
                    /\ s3loc'[p].upload_id = uploads'[Len(uploads')].UploadId
                    /\ \A i \in DOMAIN uploads : uploads[i].UploadId # s3loc'[p].upload_id
              /\ UploadsOfKey # {} =>
                    /\ uploads' = uploads
                    /\ issued'[p] = issued[p]
                    /\ \E i \in UploadsOfKey :
                          /\ \A j \in UploadsOfKey : i <= j
                          /\ s3loc'[p].upload_id = uploads[i].UploadId]_vars

\* with an upload of another key listed first and an upload of the source's key after
\* it, the run took the upload of the source's key and created none
C37_Witness ==
    /\ pc[1] = "list_parts" /\ runs[1] = 1
    /\ Len(uploads) = 2 /\ UploadsOfKey = {2}
    /\ s3loc[1].upload_id = uploads[2].UploadId
    /\ issued[1]["create_multipart_upload"] = 0

\* the number of reads of MULTIPART_CHUNK_SIZE bytes that return data
ChunksRead ==
    CHOOSE k \in 0..Len(file) :
        /\ k * MULTIPART_CHUNK_SIZE >= Len(file)
        /\ (k - 1) * MULTIPART_CHUNK_SIZE < Len(file)

\* C38: when complete_multipart_upload is called, the part count of the locally
\* computed checksum is the number of parts passed, and the parts passed carry the
\* part numbers 1..N in ascending order and without gaps, N being the number of
\* chunks read from the file; a stored part with a number above N is not among them.
C38_PartsAreOneToN ==
    \A p \in Procs :
        pc[p] = "complete_multipart_upload" =>
            LET parts == PartsList(s3loc[p].parts)
            IN /\ s3loc[p].s3_sha256sum.count = Len(parts)
               /\ Len(parts) = ChunksRead
               /\ DOMAIN s3loc[p].parts = 1..ChunksRead
               /\ \A i \in DOMAIN parts : parts[i].PartNumber = i
               /\ s3loc[p].s3_sha256sum = multipart_sha256sum(file)

\* complete_multipart_upload is about to be called for a file of one chunk while the
\* upload in progress holds a part with a higher number
C38_Witness ==
    /\ pc[1] = "complete_multipart_upload"
    /\ ChunksRead = 1
    /\ \E n \in DOMAIN s3loc[1].parts_available : n > ChunksRead

\* ------------------------------------------------------- claims on cleanup and create
\* every target region holds a deregistered image of the name
DeregisteredEverywhere ==
    \A r \in SeqRange(regions_of) :
        \E i \in DOMAIN imgs[r] : imgs[r][i].Name = image_name /\ imgs[r][i].Deregistered

\* C39: no step of Image.cleanup changes a snapshot or an import task; when cleanup of
\* a temporary image returns, the images of the name left in the target regions are
\* the public ones; a run of Image.create in an account where cleanup has deregistered
\* the image of every target region finds the snapshots by identity, issues neither
\* import_snapshot nor copy_snapshot, and registers, in each region without an image of
\* the name, a new image on the snapshot of the region.
C39_CleanupKeepsSnapshots ==
    [][\A p \in Procs :
          /\ op[p] = "cleanup" /\ (pc'[p] # pc[p] \/ loc'[p] # loc[p]) => UNCHANGED <<snaps, tasks>>
          /\ op[p] = "cleanup" /\ pc[p] # "done" /\ pc'[p] = "done" /\ conf.temporary =>
                \A r \in SeqRange(regions_of) : \A i \in DOMAIN imgs'[r] :
                    imgs'[r][i].Name = image_name /\ ~imgs'[r][i].Deregistered
                       => Public(imgs'[r][i])
          /\ op'[p] = "Image_create" /\ DeregisteredEverywhere =>
                issued'[p]["import_snapshot"] = 0 /\ issued'[p]["copy_snapshot"] = 0
          /\ op[p] = "Image_create" /\ Stepped(p, "Image_get")
                /\ NamedImages(regions_of[loc[p].i]) = {} => pc'[p] = "register_image"
          /\ op[p] = "Image_create" /\ Stepped(p, "register_image") =>
                LET r == regions_of[loc[p].i]
                    new == imgs'[r][Len(imgs'[r])]
                IN /\ Len(imgs'[r]) = Len(imgs[r]) + 1
                   /\ ~new.Deregistered /\ new.Name = image_name
                   /\ new.SnapshotId \in TaggedSnapshots(r)]_vars

\* after a cleanup that deregistered the image of both regions, create returned two
\* newly registered images without an import or a copy
C39_Witness ==
    /\ op[1] = "Image_create" /\ pc[1] = "done" /\ conf.temporary
    /\ issued[1]["register_image"] = 2
    /\ issued[1]["import_snapshot"] = 0 /\ issued[1]["copy_snapshot"] = 0
    /\ \A r \in Regions : Len(imgs[r]) = 2 /\ imgs[r][1].Deregistered /\ NamedImages(r) = {2}

\* ------------------------------------------------------- claims on create and verify
\* what Image._verify returns for region r in the present provider state; several
\* images of the name make it raise
VerifyWouldReturn(r) ==
    IF NamedImages(r) = {}
      THEN <<"NOT_EXIST">>
      ELSE LET image == imgs[r][CHOOSE i \in NamedImages(r) : TRUE]
           IN Image_verify_problems(image, snaps[r][image.SnapshotId], conf, name_of)

\* Image.create returns successfully in this step
CreateReturns(p) ==
    op[p] = "Image_create" /\ pc[p] # "done" /\ pc'[p] = "done"

\* C40: in the provider state Image.create returns in, Image._verify finds no problem
\* in any target region; and an Image._verify that returns, returns the problems of
\* the provider state it reads. Hence a verify that runs on the unchanged state after a
\* successful create returns an empty list for every target region.
C40_VerifyAfterCreateIsClean ==
    [][\A p \in Procs :
          /\ CreateReturns(p) =>
                \A r \in SeqRange(regions_of) : VerifyWouldReturn(r)' = <<>>
          /\ VerifyEnds(p) /\ pc'[p] # "failed" =>
                VerifyReturned(p) = VerifyWouldReturn(regions_of[loc[p].i])]_vars

\* the part of C40 that holds: verify returns the problems of the state it reads, and
\* the images create registered itself, on snapshots that are completed, have none
C40_RegisteredImagesAreClean ==
    [][\A p \in Procs :
          /\ VerifyEnds(p) /\ pc'[p] # "failed" =>
                VerifyReturned(p) = VerifyWouldReturn(regions_of[loc[p].i])
          /\ CreateReturns(p) =>
                \A r \in SeqRange(regions_of) :
                    (\A i \in NamedImages(r)' : imgs'[r][i].Attributes = RegisteredAttributes(conf))
                       => VerifyWouldReturn(r)' = <<>>]_vars

====
